---- MODULE Spec2Model ----
(***************************************************************************)
(* PracticePilot: the side panel's patient scan (scanPatientAndShowActions),*)
(* the patient context builder (scanAndMerge, _mergeFromLLM, _deepMerge,    *)
(* _regexFallback, save, load), the LLM context extractor's content-hash    *)
(* cache (_hashText, extract, _cacheResult, clearCache) and the benefit     *)
(* card cache (cacheCard, getCachedCard).                                   *)
(***************************************************************************)
EXTENDS Integers, Sequences, FiniteSets, TLC

VARIABLES
  now,               \* the wall clock read by new Date()
  cache,             \* llmContextExtractor._cache: a Map, in insertion order
  inserted,          \* history: the hashes _cacheResult stored since the last clear
  store,             \* chrome.storage.local["pp:patientContexts"], keys in insertion order
  cardCache,         \* chrome.storage.local["pp:cardCache"], keys in insertion order
  isScanning,        \* side panel: the scan guard
  pendingScanText,   \* side panel: the single pending slot
  lastPatientName,   \* side panel: the tracked subject
  currentPatientCtx, \* side panel: the profile on display
  currentCard,       \* side panel: the benefit card on display
  currentPageType,   \* side panel: the page type of the last page update
  requests,          \* PP_GET_PAGE_DATA requests awaiting their response
  scans,             \* the scanPatientAndShowActions bodies in progress
  obs,               \* history: observations counted, queued, dropped, saved
  lastCall,          \* history: the last completed scanAndMerge call
  lastSave,          \* history: what the last save or cacheCard did
  lastMerge,         \* history: the profile before and after the last merge
  generated,         \* history: the last actionEngine.generate call and its repeat
  isExtracting,      \* side panel: the guard of captureAndExtract
  captures,          \* the captureAndExtract bodies in progress
  injectedTabs,      \* background: the Set of tab ids already injected
  injections,        \* the ensureInjected bodies in progress
  tabScripts,        \* per tab: the content script instances of its page load, -1 closed
  contextValid,      \* content script: whether chrome.runtime.id is still there
  extensionDead,     \* content script: the kill switch
  updateTimer,       \* content script: whether the debounce timer of scheduleUpdate is pending
  urlPollInterval,   \* content script: whether the URL poll interval is set
  domObserverRef,    \* content script: whether the relay's MutationObserver observes
  cleanupDetector,   \* content script: whether the page-detector watch is on
  contentPageType,   \* content script: the page type the detector reported last
  actionScanTimer,   \* orchestrator: the debounce timer of schedulePatientRescan
  mutations          \* the mutation records not yet delivered, per observer

\* The state of the content script.
ContentVars == <<contextValid, extensionDead, updateTimer, urlPollInterval, domObserverRef,
                 cleanupDetector, contentPageType, actionScanTimer, mutations>>

\* The state of the benefit extraction, of the background script and of the
\* content script, which no step of the scan, the merge, the caches or the
\* rule engine reads or writes.
OtherVars == <<isExtracting, captures, injectedTabs, injections, tabScripts, ContentVars>>

vars == <<now, cache, inserted, store, cardCache, isScanning, pendingScanText,
          lastPatientName, currentPatientCtx, currentCard, currentPageType,
          requests, scans, obs, lastCall, lastSave, lastMerge, generated, OtherVars>>

(***************************************************************************)
(* Bounds of the model.                                                    *)
(***************************************************************************)
MaxSubjects == 2      \* distinct patients shown by the page in the scan model
MaxBodies == 1        \* distinct page contents per patient in the scan model
MaxObs == 3           \* page updates handled in one behaviour of the scan model
MaxRequests == 1      \* PP_GET_PAGE_DATA requests in flight
MaxNow == 3           \* clock readings in the store models (they start at 2)
MaxMerges == 2        \* scanAndMerge calls in one behaviour of the merge model
MaxWrites == 2        \* writes in one behaviour of the store and card models
ExtraHashes == 3      \* distinct texts beyond MAX_CACHE in the cache model
ExtraSubjects == 2    \* distinct patients beyond the store capacity
ExtraCards == 2       \* distinct cards beyond the card cache capacity

(***************************************************************************)
(* JSON values. A leaf is null, a primitive or an array; an object maps    *)
(* its keys to values. A key that is absent reads as undefined.            *)
(***************************************************************************)
Null == [t |-> "null"]
Prim(x) == [t |-> "prim", p |-> x]
Arr(s) == [t |-> "arr", a |-> s]
Obj(f) == [t |-> "obj", o |-> f]
Undefined == [t |-> "undefined"]

\* The empty object {}.
EmptyObj == [k \in {} |-> Null]

\* obj[key], undefined when the key is absent.
Get(obj, key) == IF key \in DOMAIN obj THEN obj[key] ELSE Undefined

IsNullish(v) == v.t \in {"null", "undefined"}

\* JavaScript truthiness of a value (objects and arrays are truthy).
Truthy(v) ==
  CASE v.t \in {"null", "undefined"} -> FALSE
    [] v.t = "prim" -> v.p \notin {"false", "", "0"}
    [] OTHER -> TRUE

(***************************************************************************)
(* Names. A name is a patient and a letter-case variant of how the page    *)
(* writes it; toLowerCase maps every variant to variant 0.                 *)
(***************************************************************************)
NoName == [id |-> 0, cs |-> 0]
Name(i, c) == [id |-> i, cs |-> c]
toLowerCase(n) == [id |-> n.id, cs |-> 0]

(***************************************************************************)
(* Page texts. shown: the patient name the page displays; layout: whether  *)
(* the name stands on a line of its own ("lines"), which the name patterns *)
(* need, or the line breaks around it are spaces ("flat"); body: the rest  *)
(* of the content; clock: the clock time and date the page prints; len:    *)
(* the length of the text.                                                 *)
(***************************************************************************)
Text(shown, layout, body, clock, len) ==
  [shown |-> shown, layout |-> layout, body |-> body, clock |-> clock, len |-> len]

NoText == Text(NoName, "flat", 0, 0, 0)

\* patientContext._extractPatientName: the patterns match across a line break only.
_extractPatientName(text) ==
  IF text.layout = "lines" THEN text.shown ELSE NoName

\* The normalized string _hashText digests: clock times and dates replaced by
\* placeholders, whitespace runs collapsed, lower-cased.
Normalize(text) == <<toLowerCase(text.shown), text.body>>

\* A digest that keeps the clock time of the text.
HashWithClock(text) == <<toLowerCase(text.shown), text.body, text.clock>>

\* A digest that leaves the patient name out.
HashBodyOnly(text) == <<NoName, text.body>>

\* SHA-256 of the normalized string (distinct strings, distinct digests).
_hashText(text) == Normalize(text)

NoHash == <<NoName, 0>>

(***************************************************************************)
(* patientContext._deepMerge(target, source): source values win unless     *)
(* null or undefined; an object value is merged into a stored value of     *)
(* type "object" (a plain object or an array), anything else replaces.     *)
(***************************************************************************)
ArrKeys == <<"0", "1", "2">>

\* { ...array }: the own properties of an array are its indices.
Spread(v) ==
  IF v.t = "obj" THEN v.o
  ELSE [k \in {ArrKeys[i] : i \in 1..Len(v.a)} |->
          Prim(v.a[CHOOSE i \in 1..Len(v.a) : ArrKeys[i] = k])]

RECURSIVE _deepMerge(_, _)
_deepMerge(target, source) ==
  LET written == {k \in DOMAIN source : ~IsNullish(source[k])}
  IN [k \in DOMAIN target \cup written |->
        IF k \notin written THEN target[k]
        ELSE IF source[k].t = "obj" /\ Get(target, k).t \in {"obj", "arr"}
             THEN Obj(_deepMerge(Spread(target[k]), source[k].o))
             ELSE source[k]]

(***************************************************************************)
(* patientContext._emptyContext(patientName). lastUpdated null is 0, which *)
(* is the time new Date(null) gives; the clock starts at 1.                *)
(***************************************************************************)
_emptyContext(patientName, createdAt) ==
  [patientName |-> patientName,
   profile |-> EmptyObj, insurance |-> EmptyObj, billing |-> EmptyObj,
   recare |-> EmptyObj, charting |-> EmptyObj,
   forms |-> ("completed" :> Arr(<<>>)) @@ ("hasPendingForms" :> Prim("false")),
   claims |-> EmptyObj, todayAppt |-> Null, perio |-> EmptyObj,
   appointments |-> EmptyObj, tabsScanned |-> <<>>,
   lastUpdated |-> 0, createdAt |-> createdAt,
   _lastHash |-> NoHash, _fromCache |-> Undefined]

\* The sections of a profile that hold field bags.
SectionNames ==
  {"profile", "insurance", "billing", "recare", "charting", "forms", "claims",
   "perio", "appointments"}

\* The sections the for loop of _mergeFromLLM deep-merges.
MergedSections ==
  {"profile", "insurance", "billing", "recare", "charting", "perio", "appointments"}

\* The sections in the tabsScanned of a profile.
TabSet(ctx) == {ctx.tabsScanned[i] : i \in 1..Len(ctx.tabsScanned)}

\* A tabsScanned that holds the sections of the latest page only.
PushReplace(tabsScanned, detected) == detected

\* tabsScanned after pushing, in order, the entries of detected it lacks.
RECURSIVE PushMissing(_, _)
PushMissing(tabsScanned, detected) ==
  IF detected = <<>> THEN tabsScanned
  ELSE LET s == Head(detected)
           has == \E i \in 1..Len(tabsScanned) : tabsScanned[i] = s
       IN PushMissing(IF has THEN tabsScanned ELSE Append(tabsScanned, s),
                      Tail(detected))

\* The forms block of _mergeFromLLM.
MergeForms(forms, incoming) ==
  LET completed == Get(incoming, "completed")
      pending == Get(incoming, "hasPendingForms")
      f1 == IF completed.t = "arr" /\ Len(completed.a) > 0
            THEN [k \in DOMAIN forms \cup {"completed"} |->
                     IF k = "completed" THEN completed ELSE forms[k]]
            ELSE forms
  IN IF pending.t # "undefined"
     THEN [k \in DOMAIN f1 \cup {"hasPendingForms"} |->
              IF k = "hasPendingForms" THEN pending ELSE f1[k]]
     ELSE f1

\* A todayAppt merged field by field like the other sections.
DeepMergeTodayAppt(old, incoming) ==
  IF ~Truthy(incoming) THEN old
  ELSE IF old.t = "obj" /\ incoming.t = "obj" THEN Obj(_deepMerge(old.o, incoming.o))
  ELSE incoming

\* if (sections.todayAppt) ctx.todayAppt = sections.todayAppt
MergeTodayAppt(old, incoming) == IF Truthy(incoming) THEN incoming ELSE old

(***************************************************************************)
(* The profile _mergeFromLLM saves: ctx is what load returned or the empty *)
(* context, llmResult is what extract returned, time is new Date().        *)
(***************************************************************************)
MergeLLMInto(ctx, llmResult, time) ==
  LET sections == llmResult.context
      merged == [f \in DOMAIN ctx |->
                   IF f \in MergedSections /\ Truthy(Get(sections, f))
                   THEN _deepMerge(ctx[f], sections[f].o)
                   ELSE IF f = "forms" /\ Truthy(Get(sections, "forms"))
                   THEN MergeForms(ctx.forms, sections["forms"].o)
                   ELSE IF f = "todayAppt"
                   THEN MergeTodayAppt(ctx.todayAppt, Get(sections, "todayAppt"))
                   ELSE ctx[f]]
  IN [merged EXCEPT !.tabsScanned = PushMissing(ctx.tabsScanned, llmResult.sectionsDetected),
                    !.lastUpdated = time,
                    !._lastHash = llmResult.hash,
                    !._fromCache = Prim(IF llmResult.fromCache THEN "true" ELSE "false")]

(***************************************************************************)
(* Stores kept as JavaScript objects: a sequence of entries in key         *)
(* insertion order. Assigning an existing key keeps its place.             *)
(***************************************************************************)
HasKey(all, key) == \E i \in 1..Len(all) : all[i].key = key

Lookup(all, key) == all[CHOOSE i \in 1..Len(all) : all[i].key = key]

Assign(all, entry) ==
  IF HasKey(all, entry.key)
  THEN [i \in 1..Len(all) |-> IF all[i].key = entry.key THEN entry ELSE all[i]]
  ELSE Append(all, entry)

\* for (const k of ...) delete all[k]: the other entries, in their order.
Delete(all, keys) == SelectSeq(all, LAMBDA entry : entry.key \notin keys)

\* The place of entry i after keys.sort((a, b) => stamp(a) - stamp(b)): the
\* sort is stable, so ties keep their insertion order.
\* stamps[j] is the time entry j was last written at.
SortedPlace(stamps, i) ==
  Cardinality({j \in 1..Len(stamps) :
                 \/ stamps[j] < stamps[i]
                 \/ stamps[j] = stamps[i] /\ j < i})

\* if (keys.length > capacity) delete sorted.slice(0, keys.length - capacity)
EvictOldest(all, stamps, capacity) ==
  IF Len(all) > capacity
  THEN Delete(all, {all[i].key : i \in {j \in 1..Len(all) :
                                          SortedPlace(stamps, j) < Len(all) - capacity}})
  ELSE all

(***************************************************************************)
(* patientContext.save and load.                                           *)
(***************************************************************************)
MAX_PROFILES == 100

ProfileStamp(entry) == entry.ctx.lastUpdated

ProfileStamps(all) == [i \in 1..Len(all) |-> ProfileStamp(all[i])]

\* A save that drops the first key of the object instead of the oldest one.
SaveDropsFirst(all, ctx) ==
  LET assigned == Assign(all, [key |-> toLowerCase(ctx.patientName), ctx |-> ctx])
  IN IF Len(assigned) > MAX_PROFILES THEN Tail(assigned) ELSE assigned

\* A save that drops the keys past the capacity, the last ones assigned.
SaveDropsLast(all, ctx) ==
  LET assigned == Assign(all, [key |-> toLowerCase(ctx.patientName), ctx |-> ctx])
  IN IF Len(assigned) > MAX_PROFILES THEN SubSeq(assigned, 1, MAX_PROFILES) ELSE assigned

save(all, ctx) ==
  LET assigned == Assign(all, [key |-> toLowerCase(ctx.patientName), ctx |-> ctx])
  IN EvictOldest(assigned, ProfileStamps(assigned), MAX_PROFILES)

\* load(patientName) || _emptyContext(patientName)
LoadOrEmpty(all, patientName, time) ==
  IF HasKey(all, toLowerCase(patientName))
  THEN Lookup(all, toLowerCase(patientName)).ctx
  ELSE _emptyContext(patientName, time)

(***************************************************************************)
(* The extraction cache: llmContextExtractor._cache, _cacheResult and      *)
(* clearCache.                                                             *)
(***************************************************************************)
MAX_CACHE == 50
MIN_TEXT_LENGTH == 100

CacheHas(c, hash) == HasKey(c, hash)

\* An eviction that waits until the cache is over its capacity.
CacheOverfull(c, hash, result) ==
  LET room == IF Len(c) > MAX_CACHE THEN Tail(c) ELSE c
  IN Assign(room, [key |-> hash, result |-> result])

\* An eviction one entry early.
CacheEvictEarly(c, hash, result) ==
  LET room == IF Len(c) >= MAX_CACHE - 1 THEN Tail(c) ELSE c
  IN Assign(room, [key |-> hash, result |-> result])

_cacheResult(c, hash, result) ==
  LET room == IF Len(c) >= MAX_CACHE THEN Tail(c) ELSE c
  IN Assign(room, [key |-> hash, result |-> result])

\* A clearCache that leaves the map as it is.
CacheKept == cache

\* clearCache(): this._cache.clear()
clearCache == <<>>

(***************************************************************************)
(* The regex fallback. What a page text contains is a function of its      *)
(* body: the Curve tab it shows (bodies cycle through the tabs of          *)
(* SECTIONS), the profile header on even bodies, and on bodies 1, 4, 7 ... *)
(* the phrases the parsers test with includes ("No recare found",          *)
(* "Accepted, Unscheduled", "Incomplete", "Probing Depths", ...).          *)
(***************************************************************************)
SectionOrder ==
  <<"profile", "insurance", "billing", "recare", "charting", "forms", "perio">>

TabOf(body) == SectionOrder[((body - 1) % 7) + 1]

\* config.markers.filter(m => text.includes(m)).length >= 1
HasMarker(text, section) ==
  /\ text.body >= 1
  /\ \/ section = TabOf(text.body)
     \/ section = "profile" /\ text.body % 2 = 0

IncludesFlag(text) == text.body % 3 = 1

_detectVisibleSections(text) ==
  SelectSeq(SectionOrder, LAMBDA section : HasMarker(text, section))

Put(obj, key, value) ==
  [k \in DOMAIN obj \cup {key} |-> IF k = key THEN value ELSE obj[k]]

Bool(b) == Prim(IF b THEN "true" ELSE "false")

\* _parsers[section].call(this, text, ctx): the section object afterwards.
ParseSection(section, text, old) ==
  CASE section = "profile" ->
         Put(Put(Put(Put(Put(old, "gender", Prim("Female")), "age", Prim("34")),
                     "dob", Prim("dob")), "phone", Prim("phone")), "email", Prim("email"))
    [] section = "insurance" ->
         LET o == Put(Put(Put(old, "planName", Prim("plan")), "carrier", Prim("carrier")),
                      "lastVerified", Prim("verified"))
         IN IF IncludesFlag(text) THEN Put(o, "hasMaxDeductInfo", Prim("true")) ELSE o
    [] section = "billing" ->
         LET amount == Prim(IF IncludesFlag(text) THEN "10.00" ELSE "0.00")
             aging == [k \in {"past30", "days31_60", "days61_90", "over90", "total"} |-> amount]
         IN Put(Put(Put(Put(old, "aging", Obj(aging)), "balance", amount),
                    "hasBalance", Bool(IncludesFlag(text))),
                "hasOverdue", Bool(IncludesFlag(text)))
    [] section = "recare" -> Put(old, "noRecareFound", Bool(IncludesFlag(text)))
    [] section = "charting" ->
         LET o == Put(old, "hasUnscheduledTx", Bool(IncludesFlag(text)))
         IN IF IncludesFlag(text) THEN Put(o, "pendingCodes", Arr(<<"D0150">>)) ELSE o
    [] section = "forms" -> Put(old, "hasPendingForms", Bool(IncludesFlag(text)))
    [] section = "perio" -> Put(old, "hasPerioData", Bool(IncludesFlag(text)))
    [] OTHER -> old

\* The profile _regexFallback saves.
RegexInto(ctx, text, time) ==
  LET sections == _detectVisibleSections(text)
      seen == {sections[i] : i \in 1..Len(sections)}
      parsed == [f \in DOMAIN ctx |->
                   IF f \in seen THEN ParseSection(f, text, ctx[f]) ELSE ctx[f]]
  IN [parsed EXCEPT !.tabsScanned = PushMissing(ctx.tabsScanned, sections),
                    !.lastUpdated = time]

(***************************************************************************)
(* What the external extraction service may answer (the parsed JSON):      *)
(* context, sectionsDetected and actions, in the format of SYSTEM_PROMPT.  *)
(* Fields of a section that is not visible are null.                       *)
(***************************************************************************)
Answer(context, sectionsDetected) ==
  [context |-> context, sectionsDetected |-> sectionsDetected, actions |-> <<>>]

InsuranceSeen ==
  Obj(("carrier" :> Prim("Delta")) @@ ("planName" :> Prim("PPO")) @@
      ("lastVerified" :> Null) @@ ("hasMaxDeductInfo" :> Prim("true")))

InsuranceHidden ==
  Obj(("carrier" :> Null) @@ ("planName" :> Null) @@
      ("lastVerified" :> Null) @@ ("hasMaxDeductInfo" :> Null))

\* The insurance section of a page that does not show it: the nullable
\* fields null, the true/false field false.
InsuranceDefault ==
  Obj(("carrier" :> Null) @@ ("planName" :> Null) @@
      ("lastVerified" :> Null) @@ ("hasMaxDeductInfo" :> Prim("false")))

BillingSeen ==
  Obj(("balance" :> Prim("10.00")) @@ ("hasBalance" :> Prim("true")) @@
      ("aging" :> Obj(("past30" :> Prim("10.00")) @@ ("over90" :> Null))))

BillingPartial ==
  Obj(("balance" :> Null) @@ ("hasBalance" :> Null) @@
      ("aging" :> Obj(("past30" :> Null) @@ ("over90" :> Prim("5.00")))))

ChartingSeen ==
  Obj(("hasUnscheduledTx" :> Prim("true")) @@ ("pendingCodes" :> Arr(<<"D2740">>)))

ChartingEmpty ==
  Obj(("hasUnscheduledTx" :> Prim("false")) @@ ("pendingCodes" :> Arr(<<>>)))

ClaimsSeen ==
  Obj(("totalClaims" :> Prim("2")) @@ ("unsentClaims" :> Prim("1")) @@
      ("pendingInsurance" :> Null) @@ ("claimsList" :> Arr(<<"unsent", "paid">>)))

FormsSeen ==
  Obj(("completed" :> Arr(<<"Health History">>)) @@ ("hasPendingForms" :> Prim("true")))

FormsHidden ==
  Obj(("completed" :> Null) @@ ("hasPendingForms" :> Null))

TodaySeen == Obj(("type" :> Prim("exam")) @@ ("codes" :> Arr(<<"D0150">>)))

TodayLater ==
  Obj(("startTime" :> Prim("9:00")) @@ ("isNewPatient" :> Prim("true")) @@
      ("codes" :> Null))

\* The actions of an answer that flags the balance of the Billing tab.
BalanceActions ==
  << [priority |-> "action", title |-> "Outstanding balance",
      arg |-> <<Prim("10.00")>>, category |-> "billing"],
     [priority |-> "urgent", title |-> "Balance over 30 days",
      arg |-> <<Prim("10.00")>>, category |-> "billing"] >>

\* The answers of the scan model.
ScanAnswers ==
  { Answer(("insurance" :> InsuranceSeen) @@ ("forms" :> FormsHidden), <<"insurance">>),
    Answer(("billing" :> BillingSeen) @@ ("insurance" :> InsuranceHidden), <<"billing">>) }

\* The answers of the merge model.
MergeAnswers ==
  ScanAnswers \cup
  { Answer(("billing" :> BillingPartial) @@ ("todayAppt" :> TodaySeen), <<"billing">>),
    Answer(("charting" :> ChartingSeen) @@ ("forms" :> FormsSeen), <<"charting", "forms">>),
    Answer(("charting" :> ChartingEmpty) @@ ("forms" :> FormsHidden) @@ ("todayAppt" :> Null),
           <<"charting">>),
    Answer(("billing" :> BillingSeen) @@ ("insurance" :> InsuranceDefault), <<"billing">>),
    Answer(("claims" :> ClaimsSeen), <<"claims">>),
    Answer(("todayAppt" :> TodayLater), <<>>),
    [Answer(("billing" :> BillingSeen), <<"billing">>) EXCEPT !.actions = BalanceActions],
    Answer(EmptyObj, <<>>) }

(***************************************************************************)
(* The benefit card cache (storage.cacheCard, getCachedCard). A card       *)
(* carries a subscriber id, a patient name and a payer; 0 and NoName are   *)
(* the missing ones (null or the empty string). A subscriber id or a payer *)
(* is coded by an integer: n > 0 is a trimmed lower-case string, -n the    *)
(* same string in capitals between blanks, Blanks a string of blanks only; *)
(* Name(0, c) with c > 0 is a name of blanks only. Keys are built from the *)
(* trimmed and lower-cased identifiers.                                    *)
(***************************************************************************)
MAX_CARDS == 200

Card(subscriberId, patientName, payer) ==
  [subscriberId |-> subscriberId, patientName |-> patientName, payer |-> payer]

NoCard == Card(0, NoName, 0)

Key(kind, subId, name, payer) ==
  [kind |-> kind, sub |-> subId, name |-> name, pay |-> payer]

NullKey == Key("null", 0, NoName, 0)

Blanks == -1000

\* (value || "").trim().toLowerCase() of a subscriber id or a payer.
TrimLower(x) == IF x = Blanks THEN 0 ELSE IF x < 0 THEN -x ELSE x

\* A key builder that takes the payer as it is written.
KeyFromRawPayer(patientName, subscriberId, payer) ==
  LET subId == TrimLower(subscriberId)
      name == toLowerCase(patientName)
      pay == payer
  IN IF subId # 0 /\ pay # 0 THEN Key("sub|pay", subId, NoName, pay)
     ELSE IF name # NoName /\ pay # 0 THEN Key("name|pay", 0, name, pay)
     ELSE IF subId # 0 THEN Key("sub", subId, NoName, 0)
     ELSE IF name # NoName THEN Key("name", 0, name, 0)
     ELSE NullKey

cacheKeyFromIdentifiers(patientName, subscriberId, payer) ==
  LET subId == TrimLower(subscriberId)
      name == toLowerCase(patientName)
      pay == TrimLower(payer)
  IN IF subId # 0 /\ pay # 0 THEN Key("sub|pay", subId, NoName, pay)
     ELSE IF name # NoName /\ pay # 0 THEN Key("name|pay", 0, name, pay)
     ELSE IF subId # 0 THEN Key("sub", subId, NoName, 0)
     ELSE IF name # NoName THEN Key("name", 0, name, 0)
     ELSE NullKey

\* A key that is built for a card without identifiers too.
CacheKeyNeverNull(card) ==
  LET subId == TrimLower(card.subscriberId)
      name == toLowerCase(card.patientName)
      payer == TrimLower(card.payer)
  IN IF subId # 0 /\ payer # 0 THEN Key("sub|pay", subId, NoName, payer)
     ELSE IF name # NoName /\ payer # 0 THEN Key("name|pay", 0, name, payer)
     ELSE IF subId # 0 THEN Key("sub", subId, NoName, 0)
     ELSE Key("name", 0, name, 0)

_cacheKey(card) ==
  LET subId == TrimLower(card.subscriberId)
      name == toLowerCase(card.patientName)
      payer == TrimLower(card.payer)
  IN IF subId # 0 /\ payer # 0 THEN Key("sub|pay", subId, NoName, payer)
     ELSE IF name # NoName /\ payer # 0 THEN Key("name|pay", 0, name, payer)
     ELSE IF subId # 0 THEN Key("sub", subId, NoName, 0)
     ELSE IF name # NoName THEN Key("name", 0, name, 0)
     ELSE NullKey

CardStamp(entry) == entry.cachedAt

CardStamps(c) == [i \in 1..Len(c) |-> CardStamp(c[i])]

\* A cacheCard that appends the entry whether or not its key is present.
CacheCardAppends(c, card, time) ==
  IF _cacheKey(card) = NullKey THEN c
  ELSE LET appended == Append(c, [key |-> _cacheKey(card), card |-> card,
                                  cachedAt |-> time])
       IN EvictOldest(appended, CardStamps(appended), MAX_CARDS)

cacheCard(c, card, time) ==
  IF _cacheKey(card) = NullKey THEN c
  ELSE LET assigned == Assign(c, [key |-> _cacheKey(card), card |-> card,
                                  cachedAt |-> time])
       IN EvictOldest(assigned, CardStamps(assigned), MAX_CARDS)

\* getCachedCard(cacheKey): the cached card, NoCard for null.
getCachedCard(c, cacheKey) ==
  IF cacheKey # NullKey /\ HasKey(c, cacheKey) THEN Lookup(c, cacheKey).card ELSE NoCard

(***************************************************************************)
(* The CDT code reference (cdtCodes.lookup, getCoverage). An entry has a   *)
(* name, a category and the cdtRange of its row of the coverage table; it  *)
(* has no section field.                                                   *)
(***************************************************************************)
CODES ==
  ("D0150" :> [name |-> "Comprehensive Oral Evaluation", category |-> "Diagnostic",
               cdtRange |-> "D0100-D0999"]) @@
  ("D1206" :> [name |-> "Topical Application of Fluoride Varnish",
               category |-> "Preventive", cdtRange |-> "D1000-D1999"]) @@
  ("D2740" :> [name |-> "Crown", category |-> "Crowns", cdtRange |-> "D2400-D2999"]) @@
  ("D8090" :> [name |-> "Comprehensive Orthodontic Treatment",
               category |-> "Orthodontics", cdtRange |-> "D8000-D8999"])

NoEntry == [name |-> "", category |-> "", cdtRange |-> ""]

\* String.prototype.toUpperCase and toLowerCase on the words of the model.
UpperWord(w) ==
  CASE w = "d2740" -> "D2740"
    [] OTHER -> w

LowerWord(w) ==
  CASE w = "D0150" -> "d0150"
    [] w = "D1206" -> "d1206"
    [] w = "D2740" -> "d2740"
    [] w = "D8090" -> "d8090"
    [] w = "Orthodontics" -> "orthodontics"
    [] w = "Crowns" -> "crowns"
    [] w = "Implants" -> "implants"
    [] OTHER -> w

\* lookup(code): CODES[code.toUpperCase()] || null
lookup(code) ==
  IF UpperWord(code) \in DOMAIN CODES THEN CODES[UpperWord(code)] ELSE NoEntry

\* A benefit card as the rule engine reads it: the rows of coverageTable
\* (cdtRange, inNetwork: a number or null), the strings of nonCovered, each a
\* sequence of words (<<>> is the empty string), and the ageLimits.
BenefitCard(coverageTable, nonCovered, ageLimits) ==
  [subscriberId |-> 1, patientName |-> Name(1, 0), payer |-> 1,
   coverageTable |-> coverageTable, nonCovered |-> nonCovered, ageLimits |-> ageLimits]

Row(cdtRange, inNetwork) == [cdtRange |-> cdtRange, inNetwork |-> inNetwork]

\* A getCoverage that ends in row?.inNetwork || null: 0 reads as null.
CoverageOrNull(code, card) ==
  LET entry == lookup(code)
      rows == {i \in 1..Len(card.coverageTable) :
                 card.coverageTable[i].cdtRange = entry.cdtRange}
      found == card.coverageTable[CHOOSE i \in rows : \A j \in rows : i <= j].inNetwork
  IN IF entry = NoEntry \/ rows = {} THEN Null
     ELSE IF found = Prim(0) THEN Null ELSE found

\* getCoverage(code, card): the inNetwork of the first row of the code's
\* cdtRange, null when there is no entry, no table, no row or no number.
getCoverage(code, card) ==
  LET entry == lookup(code)
      rows == {i \in 1..Len(card.coverageTable) :
                 card.coverageTable[i].cdtRange = entry.cdtRange}
  IN IF entry = NoEntry \/ rows = {} THEN Null
     ELSE card.coverageTable[CHOOSE i \in rows : \A j \in rows : i <= j].inNetwork

(***************************************************************************)
(* actionEngine.generate(ctx, benefitCard). An action carries the priority *)
(* the rule gave it, the title of the rule, the values the rule puts into  *)
(* its title and detail (arg) and its category; its id is its place in the *)
(* order the rules fired in. time is Date.now(), in days.                  *)
(***************************************************************************)
PRIORITY == ("CRITICAL" :> 1) @@ ("ACTION" :> 2) @@ ("RECOMMENDED" :> 3) @@ ("INFO" :> 4)

STALE_DAYS == 30
ADULT_AGE == 18
SENIOR_AGE == 65
GOOD_COVERAGE == 80

Fire(priority, title, arg, category) ==
  [priority |-> priority, title |-> title, arg |-> arg, category |-> category]

When(cond, fired) == IF cond THEN <<fired>> ELSE <<>>

\* haystack.includes(needle), both strings given as sequences of words.
Includes(haystack, needle) ==
  \E i \in 0..(Len(haystack) - Len(needle)) :
    \A j \in 1..Len(needle) : haystack[i + j] = needle[j]

LowerWords(s) == [i \in 1..Len(s) |-> LowerWord(s[i])]

\* _codesInclude(codes, target)
_codesInclude(codes, target) ==
  codes.t = "arr" /\ \E i \in 1..Len(codes.a) : codes.a[i] = target

\* _parseLooseDate(str): the day of the date the string starts with, counted
\* from the first day of the clock; NoDate for a string that is no date.
NoDate == -1000

_parseLooseDate(str) ==
  CASE str = "Dec 2 at 3:24PM" -> -29
    [] str = "Dec 1 at 9:00AM" -> -30
    [] OTHER -> NoDate

\* Number(value) for the ages of the model.
NumberOf(v) ==
  CASE v = Prim("12") -> 12
    [] v = Prim("18") -> 18
    [] v = Prim("34") -> 34
    [] v = Prim("70") -> 70
    [] OTHER -> 0

\* A recency check that takes a missing lastVerified for Dec 1.
StaleWhenUnverified(insurance, time) ==
  LET verified == IF Truthy(Get(insurance, "lastVerified"))
                  THEN _parseLooseDate(insurance["lastVerified"].p) ELSE -30
  IN When(verified # NoDate /\ time - verified > STALE_DAYS,
          Fire(PRIORITY["ACTION"], "Insurance not verified recently",
               <<time - verified>>, "insurance"))

\* A recency check that fires from the 30th day on.
StaleFromThirty(insurance, time) ==
  LET verified == IF Truthy(Get(insurance, "lastVerified"))
                  THEN _parseLooseDate(insurance["lastVerified"].p) ELSE NoDate
  IN When(verified # NoDate /\ time - verified >= STALE_DAYS,
          Fire(PRIORITY["ACTION"], "Insurance not verified recently",
               <<time - verified>>, "insurance"))

\* The verification recency check of generate.
StaleInsurance(insurance, time) ==
  LET verified == IF Truthy(Get(insurance, "lastVerified"))
                  THEN _parseLooseDate(insurance["lastVerified"].p) ELSE NoDate
  IN When(verified # NoDate /\ time - verified > STALE_DAYS,
          Fire(PRIORITY["ACTION"], "Insurance not verified recently",
               <<time - verified>>, "insurance"))

\* Issues that take a coverage of exactly 80 for a partial one.
CodeIssuesUpTo(code, card) ==
  LET cdtEntry == lookup(code)
      covPct == getCoverage(code, card)
      section == IF "section" \in DOMAIN cdtEntry THEN cdtEntry["section"] ELSE ""
      category == IF section = "" THEN <<>> ELSE <<section>>
      isExcluded == \E i \in 1..Len(card.nonCovered) :
                      \/ Includes(LowerWords(category), LowerWords(card.nonCovered[i]))
                      \/ Includes(LowerWords(card.nonCovered[i]), <<LowerWord(code)>>)
  IN IF cdtEntry = NoEntry THEN <<>>
     ELSE (IF covPct = Prim(0)
           THEN <<Fire(PRIORITY["CRITICAL"], "not covered", <<code, cdtEntry.name>>,
                       "coverage")>>
           ELSE IF covPct.t = "prim" /\ covPct.p <= GOOD_COVERAGE
           THEN <<Fire(PRIORITY["ACTION"], "only covered",
                       <<code, covPct.p, cdtEntry.name, 100 - covPct.p>>, "coverage")>>
           ELSE <<>>)
          \o When(isExcluded,
                  Fire(PRIORITY["CRITICAL"], "may be excluded", <<code, cdtEntry.name>>,
                       "coverage"))

\* The issues _checkCodeCoverage pushes for one code.
CodeIssues(code, card) ==
  LET cdtEntry == lookup(code)
      covPct == getCoverage(code, card)
      section == IF "section" \in DOMAIN cdtEntry THEN cdtEntry["section"] ELSE ""
      category == IF section = "" THEN <<>> ELSE <<section>>
      isExcluded == \E i \in 1..Len(card.nonCovered) :
                      \/ Includes(LowerWords(category), LowerWords(card.nonCovered[i]))
                      \/ Includes(LowerWords(card.nonCovered[i]), <<LowerWord(code)>>)
  IN IF cdtEntry = NoEntry THEN <<>>
     ELSE (IF covPct = Prim(0)
           THEN <<Fire(PRIORITY["CRITICAL"], "not covered", <<code, cdtEntry.name>>, "coverage")>>
           ELSE IF covPct.t = "prim" /\ covPct.p < GOOD_COVERAGE
           THEN <<Fire(PRIORITY["ACTION"], "only covered",
                       <<code, covPct.p, cdtEntry.name, 100 - covPct.p>>, "coverage")>>
           ELSE <<>>)
          \o When(isExcluded,
                  Fire(PRIORITY["CRITICAL"], "may be excluded", <<code, cdtEntry.name>>,
                       "coverage"))

\* _checkCodeCoverage(codes, card, patientAge)
RECURSIVE _checkCodeCoverage(_, _)
_checkCodeCoverage(codes, card) ==
  IF codes = <<>> THEN <<>>
  ELSE CodeIssues(Head(codes), card) \o _checkCodeCoverage(Tail(codes), card)

\* An actions.sort that puts equal priorities in the reverse of their order.
SortTiesReversed(actions) ==
  [n \in 1..Len(actions) |->
     actions[CHOOSE i \in 1..Len(actions) :
               Cardinality({j \in 1..Len(actions) :
                              \/ actions[j].priority < actions[i].priority
                              \/ actions[j].priority = actions[i].priority /\ j > i})
                 = n - 1]]

\* actions.sort((a, b) => a.priority - b.priority): the sort is stable.
SortByPriority(actions) ==
  LET priorities == [i \in 1..Len(actions) |-> actions[i].priority]
  IN [n \in 1..Len(actions) |->
        actions[CHOOSE i \in 1..Len(actions) : SortedPlace(priorities, i) = n - 1]]

InsuranceChecks(ctx, benefitCard, time) ==
  IF "insurance" \in TabSet(ctx)
  THEN IF ~Truthy(Get(ctx.insurance, "carrier"))
       THEN <<Fire(PRIORITY["CRITICAL"], "No insurance on file", <<>>, "insurance")>>
       ELSE StaleInsurance(ctx.insurance, time)
            \o When(benefitCard = NoCard /\ ~Truthy(Get(ctx.insurance, "hasMaxDeductInfo")),
                    Fire(PRIORITY["RECOMMENDED"], "Run eligibility check",
                         <<ctx.insurance["carrier"]>>, "insurance"))
  ELSE <<Fire(PRIORITY["RECOMMENDED"], "Review Insurance tab", <<>>, "insurance")>>

BillingChecks(ctx) ==
  IF "billing" \in TabSet(ctx)
  THEN When(Truthy(Get(ctx.billing, "hasBalance")),
            Fire(PRIORITY["ACTION"], "Outstanding balance", <<Get(ctx.billing, "balance")>>,
                 "billing"))
       \o When(Truthy(Get(ctx.billing, "hasOwingInvoices")),
               Fire(PRIORITY["ACTION"], "Unpaid invoices on file", <<>>, "billing"))
  ELSE <<>>

RecareChecks(ctx) ==
  When("recare" \in TabSet(ctx) /\ Truthy(Get(ctx.recare, "noRecareFound")),
       Fire(PRIORITY["RECOMMENDED"], "Set up recare schedule", <<>>, "recare"))

FormsChecks(ctx) ==
  When("forms" \in TabSet(ctx) /\ Truthy(Get(ctx.forms, "hasPendingForms")),
       Fire(PRIORITY["ACTION"], "Incomplete patient forms", <<>>, "forms"))

\* appt.codes?.length: the codes when they are a non-empty array.
ApptCodes(todayAppt) ==
  IF todayAppt.t = "obj" /\ Get(todayAppt.o, "codes").t = "arr"
  THEN todayAppt.o["codes"].a ELSE <<>>

\* Today's checks that ask to verify coverage whenever codes are scheduled.
TodayChecksVerifyAlways(ctx, benefitCard) ==
  IF Truthy(ctx.todayAppt)
  THEN When(ctx.todayAppt.t = "obj" /\ Truthy(Get(ctx.todayAppt.o, "isNewPatient")),
            Fire(PRIORITY["INFO"], "New patient visit", <<>>, "appointment"))
       \o (IF ApptCodes(ctx.todayAppt) = <<>> THEN <<>>
           ELSE (IF benefitCard # NoCard
                 THEN _checkCodeCoverage(ApptCodes(ctx.todayAppt), benefitCard)
                 ELSE <<>>)
                \o <<Fire(PRIORITY["RECOMMENDED"], "Verify coverage for today's codes",
                          ApptCodes(ctx.todayAppt), "coverage")>>)
  ELSE <<>>

TodayChecks(ctx, benefitCard) ==
  IF Truthy(ctx.todayAppt)
  THEN When(ctx.todayAppt.t = "obj" /\ Truthy(Get(ctx.todayAppt.o, "isNewPatient")),
            Fire(PRIORITY["INFO"], "New patient visit", <<>>, "appointment"))
       \o (IF ApptCodes(ctx.todayAppt) = <<>> THEN <<>>
           ELSE IF benefitCard # NoCard
           THEN _checkCodeCoverage(ApptCodes(ctx.todayAppt), benefitCard)
           ELSE <<Fire(PRIORITY["RECOMMENDED"], "Verify coverage for today's codes",
                       ApptCodes(ctx.todayAppt), "coverage")>>)
  ELSE <<>>

ChartingChecks(ctx) ==
  When(/\ "charting" \in TabSet(ctx)
       /\ Truthy(Get(ctx.charting, "hasUnscheduledTx"))
       /\ ~Truthy(Get(ctx.charting, "noVisits")),
       Fire(PRIORITY["RECOMMENDED"], "Unscheduled treatment pending", <<>>, "charting"))

\* ageLimits.find(a => /fluoride/i.test(a.service))
FluorideLimits(benefitCard) ==
  SelectSeq(benefitCard.ageLimits, LAMBDA a : LowerWord(a.service) = "fluoride")

AgeChecks(ctx, benefitCard) ==
  IF Get(ctx.profile, "age").t = "undefined" THEN <<>>
  ELSE LET age == NumberOf(ctx.profile["age"])
           codes == IF ctx.todayAppt.t = "obj" THEN Get(ctx.todayAppt.o, "codes")
                    ELSE Undefined
       IN When(age <= ADULT_AGE,
               Fire(PRIORITY["INFO"], "Pediatric/adolescent patient", <<>>, "clinical"))
          \o (IF age >= ADULT_AGE /\ _codesInclude(codes, "D1206")
              THEN IF benefitCard # NoCard
                   THEN When(FluorideLimits(benefitCard) # <<>>,
                             Fire(PRIORITY["ACTION"], "Fluoride age limit",
                                  <<Head(FluorideLimits(benefitCard)).limit, age>>,
                                  "coverage"))
                   ELSE <<Fire(PRIORITY["RECOMMENDED"], "Verify fluoride coverage", <<age>>,
                               "coverage")>>
              ELSE <<>>)
          \o When(age >= SENIOR_AGE,
                  Fire(PRIORITY["INFO"], "Senior patient considerations", <<>>, "clinical"))

PerioChecks(ctx) ==
  When("perio" \in TabSet(ctx) /\ Truthy(Get(ctx.perio, "hasPerioData")),
       Fire(PRIORITY["INFO"], "Perio data on file", <<>>, "clinical"))

importantTabs == <<"profile", "insurance", "billing", "recare", "forms">>

CompletenessChecks(ctx) ==
  LET missing == SelectSeq(importantTabs, LAMBDA t : t \notin TabSet(ctx))
  IN When(Len(missing) > 0 /\ Len(missing) < Len(importantTabs),
          Fire(PRIORITY["INFO"], "More tabs to scan", missing, "system"))

\* The rules in the order generate runs them, each action with its id.
Fired(ctx, benefitCard, time) ==
  LET fired == InsuranceChecks(ctx, benefitCard, time) \o BillingChecks(ctx)
               \o RecareChecks(ctx) \o FormsChecks(ctx) \o TodayChecks(ctx, benefitCard)
               \o ChartingChecks(ctx) \o AgeChecks(ctx, benefitCard) \o PerioChecks(ctx)
               \o CompletenessChecks(ctx)
  IN [i \in 1..Len(fired) |->
        [id |-> i, priority |-> fired[i].priority, title |-> fired[i].title,
         arg |-> fired[i].arg, category |-> fired[i].category]]

generate(ctx, benefitCard, time) == SortByPriority(Fired(ctx, benefitCard, time))

(***************************************************************************)
(* The actions scanAndMerge returns: _mergeFromLLM maps the actions of the *)
(* extraction result (priority strings to numbers, ids by position),       *)
(* _regexFallback calls generate(ctx).                                     *)
(***************************************************************************)
PRIORITY_MAP ==
  ("critical" :> 1) @@ ("action" :> 2) @@ ("recommended" :> 3) @@ ("info" :> 4)

mappedActions(actions) ==
  [i \in 1..Len(actions) |->
     [id |-> i,
      priority |-> IF actions[i].priority \in DOMAIN PRIORITY_MAP
                   THEN PRIORITY_MAP[actions[i].priority] ELSE PRIORITY["INFO"],
      title |-> actions[i].title, arg |-> actions[i].arg,
      category |-> actions[i].category]]

ReturnedActions(via, llmResult, ctx, benefitCard, time) ==
  IF via = "regex" THEN generate(ctx, NoCard, time)
  ELSE mappedActions(llmResult.actions)

(***************************************************************************)
(* The side panel. The panel state is the variables a page update can      *)
(* change before the first await of scanPatientAndShowActions.             *)
(***************************************************************************)
MIN_SCAN_LENGTH == 50

NoCall == [norm |-> NoHash, ok |-> FALSE, fromCache |-> FALSE, llm |-> 0, len |-> 0,
           follows |-> FALSE, followsOk |-> FALSE]

NoObs == [count |-> 0, arrived |-> NoText, latest |-> NoText, latestSeq |-> 0,
          cleared |-> FALSE,
          follow |-> [n |-> 0, text |-> NoText, latest |-> NoText, arrived |-> NoText],
          saved |-> <<>>, got |-> {}, tabs |-> {},
          failed |-> [seq |-> 0, rejected |-> FALSE, returned |-> FALSE, warned |-> FALSE],
          captured |-> 0, ensured |-> 0, reloads |-> 0,
          sent |-> 0, mutated |-> 0, rescans |-> 0,
          hashed |-> [n |-> 0, a |-> <<>>, b |-> <<>>, lead |-> <<0, 0>>, gap |-> <<1, 1>>],
          cached |-> [n |-> 0, card |-> NoCard, before |-> <<>>],
          looked |-> [n |-> 0, patientName |-> NoName, subscriberId |-> 0, payer |-> 0,
                      key |-> NullKey, card |-> NoCard]]

NoResult == [patientName |-> NoName, context |-> EmptyObj, actions |-> <<>>,
             sectionsDetected |-> <<>>, hash |-> NoHash, fromCache |-> FALSE]

NoCtx == _emptyContext(NoName, 0)

Panel ==
  [isScanning |-> isScanning, pendingScanText |-> pendingScanText,
   lastPatientName |-> lastPatientName, currentPatientCtx |-> currentPatientCtx,
   currentCard |-> currentCard, cache |-> cache, inserted |-> inserted,
   scans |-> scans, obs |-> obs, lastCall |-> lastCall]

SetPanel(panel) ==
  \E p \in {panel} :
    /\ isScanning' = p.isScanning
    /\ pendingScanText' = p.pendingScanText
    /\ lastPatientName' = p.lastPatientName
    /\ currentPatientCtx' = p.currentPatientCtx
    /\ currentCard' = p.currentCard
    /\ cache' = p.cache
    /\ inserted' = p.inserted
    /\ scans' = p.scans
    /\ obs' = p.obs
    /\ lastCall' = p.lastCall

\* A guard that never holds.
NoGuard(scanning) == FALSE

\* if (isScanning): the concurrency guard of scanPatientAndShowActions.
Busy(scanning) == scanning

\* A slot that keeps the first text queued.
QueueFirst(pending, pageText) == IF pending = NoText THEN pageText ELSE pending

\* pendingScanText = pageText: the single slot takes the latest text.
Queue(pending, pageText) == pageText

\* A switch test that compares the names as they are written.
IsPatientSwitchExact(newName, last) ==
  newName # NoName /\ last # NoName /\ newName # last

\* newName && lastPatientName && newName.toLowerCase() !== lastPatientName.toLowerCase()
IsPatientSwitch(newName, last) ==
  newName # NoName /\ last # NoName /\ toLowerCase(newName) # toLowerCase(last)

\* A scanAndMerge call has returned: the history of consecutive calls.
CallDone(p, text, ok, fromCache, llm) ==
  [p EXCEPT !.lastCall =
              [norm |-> Normalize(text), ok |-> ok, fromCache |-> fromCache, llm |-> llm,
               len |-> text.len,
               follows |-> p.lastCall.norm = Normalize(text) /\ ~p.obs.cleared,
               followsOk |-> /\ p.lastCall.norm = Normalize(text)
                             /\ ~p.obs.cleared /\ p.lastCall.ok],
            !.obs.cleared = FALSE]

\* A scan body as it awaits: pc names the await it is suspended at.
Scan(seq, text, newName, isPatientSwitch, queued) ==
  [seq |-> seq, text |-> text, pc |-> "enter", newName |-> newName,
   isPatientSwitch |-> isPatientSwitch, benefitCard |-> NoCard,
   queued |-> queued, llm |-> 0, via |-> "none", llmResult |-> NoResult,
   ctx |-> NoCtx, all |-> <<>>]

Replace(p, s, t) == [p EXCEPT !.scans = (@ \ {s}) \cup {t}]

\* A finally block that takes the scan away and leaves the guard held.
FinallyHolds(p, s) == [p EXCEPT !.scans = @ \ {s}]

RECURSIVE Enter(_, _, _, _), Finally(_, _)

\* The finally block: release the guard and start the queued scan, if any.
Finally(panel, s) ==
  LET Run(p) ==
        LET p1 == [p EXCEPT !.isScanning = FALSE, !.scans = @ \ {s}]
        IN IF p1.pendingScanText # NoText
           THEN Enter([p1 EXCEPT !.pendingScanText = NoText,
                                 !.obs.follow = [n |-> 1, text |-> p1.pendingScanText,
                                                 latest |-> p.obs.latest,
                                                 arrived |-> p.obs.arrived]],
                      p1.pendingScanText, p.obs.latestSeq, TRUE)
           ELSE [p1 EXCEPT !.obs.follow = [n |-> 0, text |-> NoText, latest |-> p.obs.latest,
                                           arrived |-> p.obs.arrived],
                           !.obs.arrived = NoText]
  IN CHOOSE r \in {Run(p) : p \in {panel}} : TRUE

\* scanAndMerge up to its first await, the benefit card being settled: a text
\* under MIN_TEXT_LENGTH returns null at once and the scan ends.
StartScanAndMerge(p, s, t) ==
  IF t.text.len < MIN_TEXT_LENGTH
  THEN Finally(CallDone(Replace(p, s, t), t.text, FALSE, FALSE, 0), t)
  ELSE Replace(p, s, [t EXCEPT !.pc = "hash"])

\* scanPatientAndShowActions(pageText) up to its first await.
Enter(panel, pageText, seq, queued) ==
  LET Run(p) ==
        IF pageText.len < MIN_SCAN_LENGTH THEN p
        ELSE IF Busy(p.isScanning)
        THEN [p EXCEPT !.pendingScanText = Queue(@, pageText),
                       !.obs.latest = pageText, !.obs.latestSeq = seq]
        ELSE
          LET newName == _extractPatientName(pageText)
              switch == IsPatientSwitch(newName, p.lastPatientName)
              s == Scan(seq, pageText, newName, switch, queued)
              p1 == [p EXCEPT !.isScanning = TRUE,
                              !.pendingScanText = NoText,
                              !.obs.arrived = NoText,
                              !.obs.latest = NoText,
                              !.obs.latestSeq = 0,
                              !.currentPatientCtx = IF switch THEN NoCtx ELSE @,
                              !.currentCard = IF switch THEN NoCard ELSE @,
                              !.cache = IF switch THEN clearCache ELSE @,
                              !.inserted = IF switch THEN <<>> ELSE @,
                              !.obs.cleared = IF switch THEN TRUE ELSE @,
                              !.lastPatientName = IF newName # NoName THEN newName ELSE @,
                              !.scans = @ \cup {s}]
          IN IF /\ p1.currentCard # NoCard
                /\ toLowerCase(p1.currentCard.patientName) = toLowerCase(newName)
             THEN StartScanAndMerge(p1, s, [s EXCEPT !.benefitCard = p1.currentCard])
             ELSE IF newName # NoName
             THEN Replace(p1, s, [s EXCEPT !.pc = "card"])
             ELSE StartScanAndMerge(p1, s, s)
  IN CHOOSE r \in {Run(p) : p \in {panel}} : TRUE

(***************************************************************************)
(* The scan model: page updates reach the side panel as PP_PAGE_UPDATE     *)
(* messages and as responses to PP_GET_PAGE_DATA (tab events, the rescan   *)
(* button, the 3 s poll), and one scan body runs from await to await.      *)
(***************************************************************************)
PATIENT_VIEW == "patient_view"

PageTypes == {PATIENT_VIEW, "unknown"}

ScanTexts ==
  {Text(Name(i, 0), "lines", b, 1, 120) : i \in 1..MaxSubjects, b \in 1..MaxBodies}
    \cup {Text(Name(1, 1), "lines", 1, 1, 120),   \* the name in another letter case
          Text(Name(1, 0), "lines", 1, 2, 120),   \* another clock time
          Text(Name(1, 0), "flat", 1, 1, 120),    \* the line breaks gone
          Text(Name(1, 0), "lines", 1, 1, 70),    \* under MIN_TEXT_LENGTH
          Text(Name(2, 0), "lines", 1, 1, 40),    \* under MIN_SCAN_LENGTH
          Text(NoName, "flat", 2, 1, 120)}        \* no patient on the page

StoredCard == Card(0, Name(1, 0), 0)

\* The history of a merge: the call, how extract served it (via), what extract
\* returned (result), the stored profile before, and the profile saved.
NoMerge == [seq |-> 0, text |-> NoText, key |-> NoName, before |-> NoCtx, after |-> NoCtx,
            via |-> "none", result |-> NoResult, card |-> NoCard, actions |-> <<>>]

\* The history of a write to a bounded store: the key written, the time of the
\* write, whether the key was new, the entry count before, and the entries the
\* write evicted (assigned is the store with the entry assigned, before the
\* eviction).
SaveRecord(before, assigned, key, after) ==
  LET kept == {after[i].key : i \in 1..Len(after)}
  IN [key |-> key, at |-> now, fresh |-> ~HasKey(before, key), count |-> Len(before),
      evicted |-> {assigned[i] : i \in {j \in 1..Len(assigned) :
                                          assigned[j].key \notin kept}}]

\* The history of generate: the arguments and the clock of the last call, the
\* list it returned, and the list a repeat of the call returned (calls counts
\* the call and its repeats).
NoGenerated == [calls |-> 0, ctx |-> NoCtx, card |-> NoCard, at |-> 0, actions |-> <<>>,
                againAt |-> 0, again |-> <<>>]

NoSave == [key |-> NoName, at |-> 0, fresh |-> FALSE, count |-> 0, evicted |-> {}]

NoRequests == [tab |-> 0, poll |-> 0]

\* The side panel and the histories of calls before anything has happened.
InitPanel ==
  /\ cache = <<>>
  /\ inserted = <<>>
  /\ isScanning = FALSE
  /\ pendingScanText = NoText
  /\ lastPatientName = NoName
  /\ currentPatientCtx = NoCtx
  /\ currentCard = NoCard
  /\ currentPageType = "none"
  /\ requests = NoRequests
  /\ scans = {}
  /\ lastCall = NoCall
  /\ lastSave = NoSave
  /\ lastMerge = NoMerge
  /\ generated = NoGenerated

\* The content script after init(): the observers, the interval and the
\* detector watch are set, no timer is pending, the page is a patient view.
NoTimer == [armed |-> FALSE, by |-> "none"]

InitContent ==
  /\ contextValid = TRUE
  /\ extensionDead = FALSE
  /\ updateTimer = FALSE
  /\ urlPollInterval = TRUE
  /\ domObserverRef = TRUE
  /\ cleanupDetector = TRUE
  /\ contentPageType = PATIENT_VIEW
  /\ actionScanTimer = NoTimer
  /\ mutations = {}

\* The tabs of the browser.
MaxTabs == 2
Tabs == 1..MaxTabs

\* No captureAndExtract has been called; the background script has just
\* started, tab 1 shows a page the manifest injects into, tab 2 another page.
InitOther ==
  /\ isExtracting = FALSE
  /\ captures = {}
  /\ injectedTabs = {}
  /\ injections = {}
  /\ tabScripts = [t \in Tabs |-> IF t = 1 THEN 1 ELSE 0]
  /\ InitContent

InitQuiet == InitPanel /\ obs = NoObs /\ InitOther

Init ==
  /\ now = 1
  /\ store = <<>>
  /\ cardCache = cacheCard(<<>>, StoredCard, 1)
  /\ InitQuiet

\* handlePageUpdate(data, tabId)
handlePageUpdate(pageType, pageText) ==
  /\ obs.count < MaxObs
  /\ currentPageType' = pageType
  /\ LET p == [Panel EXCEPT !.obs.count = @ + 1,
                             !.obs.arrived = IF isScanning THEN pageText ELSE @]
     IN IF pageType = PATIENT_VIEW
        THEN SetPanel(Enter(p, pageText, obs.count + 1, FALSE))
        ELSE SetPanel(p)

\* chrome.runtime.onMessage: PP_PAGE_UPDATE from the content script.
PageUpdate ==
  \E pageType \in PageTypes, pageText \in ScanTexts :
    /\ handlePageUpdate(pageType, pageText)
    /\ UNCHANGED <<OtherVars, generated, now, store, cardCache, requests, lastSave, lastMerge>>

\* tabs.onActivated, tabs.onUpdated and the rescan button: requestPageData.
RequestPageData ==
  /\ requests.tab + requests.poll < MaxRequests
  /\ requests' = [requests EXCEPT !.tab = @ + 1]
  /\ UNCHANGED <<OtherVars, generated, now, cache, inserted, store, cardCache, isScanning, pendingScanText,
                 lastPatientName, currentPatientCtx, currentCard, currentPageType,
                 scans, obs, lastCall, lastSave, lastMerge>>

\* The poll timer: if (!activeTabId || isScanning) return.
PollTick ==
  /\ ~isScanning
  /\ requests.tab + requests.poll < MaxRequests
  /\ requests' = [requests EXCEPT !.poll = @ + 1]
  /\ UNCHANGED <<OtherVars, generated, now, cache, inserted, store, cardCache, isScanning, pendingScanText,
                 lastPatientName, currentPatientCtx, currentCard, currentPageType,
                 scans, obs, lastCall, lastSave, lastMerge>>

\* The content script answers PP_GET_PAGE_DATA.
PageDataResponse ==
  \E kind \in {"tab", "poll"}, pageType \in PageTypes, pageText \in ScanTexts :
    /\ requests[kind] > 0
    /\ requests' = [requests EXCEPT ![kind] = @ - 1]
    /\ handlePageUpdate(pageType, pageText)
    /\ UNCHANGED <<OtherVars, generated, now, store, cardCache, lastSave, lastMerge>>

\* No content script on the tab: requestPageData shows the idle state, the
\* poll ignores the error.
PageDataFails ==
  \E kind \in {"tab", "poll"} :
    /\ requests[kind] > 0
    /\ requests' = [requests EXCEPT ![kind] = @ - 1]
    /\ currentPageType' = IF kind = "tab" THEN "none" ELSE currentPageType
    /\ UNCHANGED <<OtherVars, generated, now, cache, inserted, store, cardCache, isScanning, pendingScanText,
                   lastPatientName, currentPatientCtx, currentCard,
                   scans, obs, lastCall, lastSave, lastMerge>>

\* new Date() moves on.
Tick ==
  /\ now < MaxNow
  /\ now' = now + 1
  /\ UNCHANGED <<OtherVars, generated, cache, inserted, store, cardCache, isScanning, pendingScanText,
                 lastPatientName, currentPatientCtx, currentCard, currentPageType,
                 requests, scans, obs, lastCall, lastSave, lastMerge>>

(***************************************************************************)
(* The awaits of a scan body, in order: the benefit card lookup ("card"),  *)
(* the digest of _hashText ("hash"), getConfig ("config"), the call of the *)
(* external service ("llm"), load ("load"), _loadAll in save ("save"),     *)
(* storage.set in save ("set") and the second card lookup ("card2").       *)
(***************************************************************************)
PanelRest == <<OtherVars, generated, now, store, cardCache, currentPageType, requests, lastSave, lastMerge>>

\* await PP.storage.getCachedCard(cacheKeyFromIdentifiers(newName, null, null))
CardLookupDone ==
  \E s \in scans :
    /\ s.pc = "card"
    /\ LET card == getCachedCard(cardCache, cacheKeyFromIdentifiers(s.newName, 0, 0))
           p == IF card # NoCard THEN [Panel EXCEPT !.currentCard = card] ELSE Panel
       IN SetPanel(StartScanAndMerge(p, s, [s EXCEPT !.benefitCard = card]))
    /\ UNCHANGED PanelRest

\* extract: the hash is known; a hit returns the cached result, a miss goes on
\* to the patient name, and without one extract and _regexFallback return null.
HashDone ==
  \E s \in scans :
    /\ s.pc = "hash"
    /\ LET hash == _hashText(s.text)
       IN IF CacheHas(cache, hash)
          THEN SetPanel(Replace(Panel, s,
                 [s EXCEPT !.pc = "load", !.via = "cache",
                           !.llmResult = [Lookup(cache, hash).result
                                            EXCEPT !.fromCache = TRUE]]))
          ELSE IF _extractPatientName(s.text) = NoName
          THEN SetPanel(Finally(CallDone(Panel, s.text, FALSE, FALSE, 0), s))
          ELSE SetPanel(Replace(Panel, s, [s EXCEPT !.pc = "config"]))
    /\ UNCHANGED PanelRest

\* extract: getConfig returns; without an API key extract returns null and
\* scanAndMerge falls back to _regexFallback, else the service is called.
ConfigDone ==
  \E s \in scans, hasKey \in BOOLEAN :
    /\ s.pc = "config"
    /\ SetPanel(Replace(Panel, s,
         IF hasKey THEN [s EXCEPT !.pc = "llm", !.llm = @ + 1]
         ELSE [s EXCEPT !.pc = "load", !.via = "regex"]))
    /\ UNCHANGED PanelRest

\* extract: the service answers and the answer parses; the result is cached.
LLMAnswers ==
  \E s \in scans, answer \in ScanAnswers :
    /\ s.pc = "llm"
    /\ LET hash == _hashText(s.text)
           result == [patientName |-> _extractPatientName(s.text),
                      context |-> answer.context, actions |-> answer.actions,
                      sectionsDetected |-> answer.sectionsDetected,
                      hash |-> hash, fromCache |-> FALSE]
       IN SetPanel([Replace(Panel, s, [s EXCEPT !.pc = "load", !.via = "llm",
                                                !.llmResult = result])
                      EXCEPT !.cache = _cacheResult(cache, hash, result),
                             !.inserted = Append(inserted, hash)])
    /\ UNCHANGED PanelRest

\* An extract whose failed call ends scanAndMerge with null, without a fallback.
LLMFailsNull ==
  \E s \in scans :
    /\ s.pc = "llm"
    /\ SetPanel(Finally(CallDone(Panel, s.text, FALSE, FALSE, s.llm), s))
    /\ UNCHANGED PanelRest

\* extract: the call fails (HTTP error, unparsable answer); extract returns
\* null and scanAndMerge falls back to _regexFallback.
LLMFails ==
  \E s \in scans :
    /\ s.pc = "llm"
    /\ SetPanel(Replace(Panel, s, [s EXCEPT !.pc = "load", !.via = "regex"]))
    /\ UNCHANGED PanelRest

\* The name _mergeFromLLM and _regexFallback key the profile by.
MergeName(s) ==
  IF s.via = "regex" THEN _extractPatientName(s.text) ELSE s.llmResult.patientName

\* _mergeFromLLM / _regexFallback: load returns, the merge is done in memory.
LoadDone ==
  \E s \in scans :
    /\ s.pc = "load"
    /\ LET ctx == LoadOrEmpty(store, MergeName(s), now)
           merged == IF s.via = "regex" THEN RegexInto(ctx, s.text, now)
                     ELSE MergeLLMInto(ctx, s.llmResult, now)
       IN SetPanel([Replace(Panel, s, [s EXCEPT !.pc = "save", !.ctx = merged])
                      EXCEPT !.obs.got = @ \cup {s.seq}])
    /\ UNCHANGED PanelRest

\* save: _loadAll returns; the entry is assigned and the surplus evicted.
SaveLoaded ==
  \E s \in scans :
    /\ s.pc = "save"
    /\ SetPanel(Replace(Panel, s, [s EXCEPT !.pc = "set", !.all = save(store, s.ctx)]))
    /\ UNCHANGED PanelRest

\* The payer a carrier string names.
PayerOf(carrier) == IF carrier = Prim("Delta") THEN 1 ELSE 2

\* The profile stored under a key, NoCtx when there is none.
ProfileAt(all, key) == IF HasKey(all, key) THEN Lookup(all, key).ctx ELSE NoCtx

\* save: storage.set returns; scanAndMerge returns { ctx, actions } and the scan
\* body goes on to the second card lookup or to its end.
SetDone ==
  \E s \in scans :
    /\ s.pc = "set"
    /\ store' = s.all
    /\ lastSave' = SaveRecord(store, Assign(store, [key |-> toLowerCase(s.ctx.patientName),
                                                    ctx |-> s.ctx]),
                              toLowerCase(s.ctx.patientName), s.all)
    /\ lastMerge' = [seq |-> s.seq, text |-> s.text,
                     key |-> toLowerCase(s.ctx.patientName),
                     before |-> ProfileAt(store, toLowerCase(s.ctx.patientName)),
                     after |-> s.ctx, via |-> s.via, result |-> s.llmResult,
                     card |-> s.benefitCard,
                     actions |-> ReturnedActions(s.via, s.llmResult, s.ctx,
                                                 s.benefitCard, now)]
    /\ LET done == CallDone(Panel, s.text, s.via # "regex", Truthy(s.ctx._fromCache), s.llm)
           p == [done EXCEPT !.currentPatientCtx = s.ctx,
                             !.obs.saved = Append(@, s.seq)]
       IN IF s.benefitCard = NoCard /\ Truthy(Get(s.ctx.insurance, "carrier"))
          THEN SetPanel(Replace(p, s, [s EXCEPT !.pc = "card2"]))
          ELSE SetPanel(Finally(p, s))
    /\ UNCHANGED <<OtherVars, generated, now, cardCache, currentPageType, requests>>

\* await getCachedCard(cacheKeyFromIdentifiers(ctx.patientName, null, carrier))
Card2Done ==
  \E s \in scans :
    /\ s.pc = "card2"
    /\ LET key == cacheKeyFromIdentifiers(s.ctx.patientName, 0,
                                          PayerOf(s.ctx.insurance["carrier"]))
           card == getCachedCard(cardCache, key)
           p == IF card # NoCard THEN [Panel EXCEPT !.currentCard = card] ELSE Panel
       IN SetPanel(Finally(p, s))
    /\ UNCHANGED PanelRest

Next ==
  \/ PageUpdate
  \/ RequestPageData
  \/ PollTick
  \/ PageDataResponse
  \/ PageDataFails
  \/ CardLookupDone
  \/ HashDone
  \/ ConfigDone
  \/ LLMAnswers
  \/ LLMFails
  \/ LoadDone
  \/ SaveLoaded
  \/ SetDone
  \/ Card2Done

Spec == Init /\ [][Next]_vars

(***************************************************************************)
(* The failure model: the scan model without the PP_GET_PAGE_DATA path,    *)
(* and with a storage write that can fail. chrome.storage.local.set        *)
(* rejects, save and scanAndMerge reject with it (neither catches), and    *)
(* the catch of scanPatientAndShowActions logs the error with console.warn *)
(* and renders nothing; then the finally block runs.                       *)
(***************************************************************************)
\* save: storage.set rejects. obs.failed: the scan, whether scanAndMerge
\* rejected, whether it returned a result, whether the panel showed a warning.
SetFails ==
  \E s \in scans :
    /\ s.pc = "set"
    /\ LET done == CallDone(Panel, s.text, s.via # "regex", Truthy(s.ctx._fromCache), s.llm)
           p == [done EXCEPT !.obs.failed = [seq |-> s.seq, rejected |-> TRUE,
                                             returned |-> FALSE, warned |-> FALSE]]
       IN SetPanel(Finally(p, s))
    /\ UNCHANGED PanelRest

NextFail ==
  \/ PageUpdate
  \/ CardLookupDone
  \/ HashDone
  \/ ConfigDone
  \/ LLMAnswers
  \/ LLMFails
  \/ LoadDone
  \/ SaveLoaded
  \/ SetDone
  \/ SetFails
  \/ Card2Done

SpecFail == Init /\ [][NextFail]_vars

(***************************************************************************)
(* C27. When the storage write of save fails during scanAndMerge, the      *)
(* failure reaches the caller of scanAndMerge as an error, no result is    *)
(* returned, and the failure is shown to the user.                         *)
(***************************************************************************)
C27_SaveFailureSurfaces ==
  obs.failed.seq > 0 =>
    /\ obs.failed.rejected
    /\ ~obs.failed.returned
    /\ obs.failed.warned

(***************************************************************************)
(* C28. A failed external extraction is not fatal: when the call fails or  *)
(* the API key is missing, for a text that names a patient, scanAndMerge   *)
(* goes on with _regexFallback and returns the profile the section parsers *)
(* build, with the actions generate derives from it; the only scans that   *)
(* end without a result after a failed call are those whose storage write  *)
(* failed afterwards.                                                      *)
(***************************************************************************)
C28_FallbackNonFatal ==
  /\ \A s \in scans :
       s.via = "regex" =>
         /\ _extractPatientName(s.text) # NoName
         /\ s.text.len >= MIN_TEXT_LENGTH
         /\ s.pc \in {"load", "save", "set", "card2"}
  /\ lastCall.llm > 0 /\ ~lastCall.ok =>
       \/ lastMerge.via = "regex" /\ Normalize(lastMerge.text) = lastCall.norm
       \/ obs.failed.seq > lastMerge.seq
  /\ lastMerge.via = "regex" =>
       LET name == _extractPatientName(lastMerge.text)
           ctx == IF lastMerge.before = NoCtx THEN _emptyContext(name, now)
                  ELSE lastMerge.before
       IN /\ name # NoName
          /\ lastMerge.key = toLowerCase(name)
          /\ lastMerge.after = RegexInto(ctx, lastMerge.text, now)
          /\ lastMerge.actions = generate(lastMerge.after, NoCard, now)

\* The service was called for a text and failed, and the scan ended with the
\* profile of the fallback saved and actions returned.
C28_Witness ==
  /\ lastCall.llm > 0
  /\ ~lastCall.ok
  /\ lastMerge.via = "regex"
  /\ lastMerge.seq > obs.failed.seq
  /\ Normalize(lastMerge.text) = lastCall.norm
  /\ lastMerge.after.tabsScanned # <<>>
  /\ lastMerge.actions # <<>>

(***************************************************************************)
(* C29. A page text from which no patient name can be extracted changes    *)
(* nothing: its scan never gets past the start of extract, and no profile  *)
(* is merged, saved or made the current one for it.                        *)
(***************************************************************************)
C29_NoNameNoChange ==
  /\ \A s \in scans :
       _extractPatientName(s.text) = NoName => s.pc \notin {"load", "save", "set", "card2"}
  /\ lastMerge.seq > 0 => _extractPatientName(lastMerge.text) # NoName

RecallCards == {StoredCard, Card(0, Name(1, 0), 1), Card(1, Name(1, 0), 1)}

InitRecall ==
  /\ now = 1
  /\ store = <<>>
  /\ cardCache \in {cacheCard(<<>>, card, 1) : card \in RecallCards}
  /\ InitQuiet

NextRecall ==
  \/ PageUpdate
  \/ CardLookupDone
  \/ HashDone
  \/ ConfigDone
  \/ LLMAnswers
  \/ LLMFails
  \/ LoadDone
  \/ SaveLoaded
  \/ SetDone
  \/ Card2Done

SpecRecall == InitRecall /\ [][NextRecall]_vars

\* The cached benefit cards of a patient.
CardsFor(patientName) ==
  {cardCache[i].card : i \in {j \in 1..Len(cardCache) :
     toLowerCase(cardCache[j].card.patientName) = toLowerCase(patientName)}}

\* A scan has ended with a result in this step, and no queued scan follows.
EndedWithResult(s) ==
  /\ s.pc \in {"set", "card2"}
  /\ \A t \in scans' : t.seq # s.seq
  /\ pendingScanText = NoText

(***************************************************************************)
(* C37. Per-patient recall: when a patient-view scan ends with a result    *)
(* for a patient who has a benefit card in the card cache, the card on     *)
(* display is that card, whatever identifiers the card carries.            *)
(***************************************************************************)
C37_CardRecalled ==
  [][\A s \in scans :
       EndedWithResult(s) /\ CardsFor(s.ctx.patientName) # {} =>
         currentCard' \in CardsFor(s.ctx.patientName)]_vars

(***************************************************************************)
(* C2. Subject-switch isolation: every merge writes only to the profile    *)
(* keyed by the (lower-cased) patient name of the page text its extraction *)
(* result came from, also when another patient's text arrived while the   *)
(* extraction was in flight; every stored profile sits under its own name. *)
(***************************************************************************)
C2_SubjectIsolation ==
  /\ lastMerge.key # NoName => lastMerge.key = toLowerCase(lastMerge.text.shown)
  /\ \A s \in scans :
       s.pc \in {"save", "set"} => toLowerCase(s.ctx.patientName) = toLowerCase(s.text.shown)
  /\ \A i \in 1..Len(store) : store[i].key = toLowerCase(store[i].ctx.patientName)

\* Patient 1's result has been saved under patient 1 and the scan of patient 2's
\* text, queued while that extraction was in flight, has begun as a switch.
C2_Witness ==
  /\ lastMerge.key = Name(1, 0)
  /\ HasKey(store, Name(1, 0))
  /\ ~HasKey(store, Name(2, 0))
  /\ \E s \in scans : s.queued /\ s.isPatientSwitch /\ s.newName = Name(2, 0)

(***************************************************************************)
(* C3. Merges are serialized: at most one scanPatientAndShowActions body   *)
(* is in progress at any time, and isScanning is set exactly while one is. *)
(***************************************************************************)
C3_Serialized ==
  /\ Cardinality(scans) <= 1
  /\ isScanning <=> scans # {}

\* A page update has arrived and been queued while a scan is in flight.
C3_Witness ==
  /\ pendingScanText # NoText
  /\ \E s \in scans : s.pc \in {"llm", "load", "save", "set"}

(***************************************************************************)
(* C4 as stated. When page updates arrived while a scan was in flight, the *)
(* finishing scan starts exactly one follow-up scan and it processes the   *)
(* text of the most recent of those arrivals.                              *)
(***************************************************************************)
C4_AnyArrival ==
  obs.follow.arrived # NoText =>
    obs.follow.n = 1 /\ obs.follow.text = obs.follow.arrived

(***************************************************************************)
(* C4. Coalescing, latest text wins: patient-view page updates of at least *)
(* 50 characters that arrive while a scan is in flight share the single    *)
(* pendingScanText slot, which holds the most recent of them; the          *)
(* finishing scan starts exactly one follow-up scan, on that text.         *)
(***************************************************************************)
C4_LatestWins ==
  /\ pendingScanText = obs.latest
  /\ pendingScanText # NoText => isScanning
  /\ obs.follow.latest # NoText =>
       obs.follow.n = 1 /\ obs.follow.text = obs.follow.latest
  /\ obs.follow.latest = NoText => obs.follow.n = 0

\* Two different texts were queued during one scan; the follow-up scan runs on
\* the second of them.
C4_Witness ==
  /\ obs.count = 3
  /\ obs.follow.n = 1
  /\ \E s \in scans : s.queued /\ s.seq = 3 /\ s.text = obs.follow.latest

(***************************************************************************)
(* C5. Merge order is preserved: profiles are stored in the order their    *)
(* page updates arrived, and a scan whose merge has begun is never         *)
(* dropped: it is still in progress or its profile has been stored, before *)
(* any queued scan starts.                                                 *)
(***************************************************************************)
C5_MergeOrder ==
  /\ \A i, j \in 1..Len(obs.saved) : i < j => obs.saved[i] < obs.saved[j]
  /\ \A q \in obs.got :
       \/ \E i \in 1..Len(obs.saved) : obs.saved[i] = q
       \/ \E s \in scans : s.seq = q /\ s.pc \in {"save", "set"}
  /\ \A s \in scans : \A i \in 1..Len(obs.saved) : s.pc # "card2" => obs.saved[i] < s.seq

\* The scan in flight stored its merge, then the scan queued behind it stored
\* its own.
C5_Witness ==
  /\ Len(obs.saved) = 2
  /\ lastMerge.seq = obs.saved[2]
  /\ \E s \in scans : s.queued /\ s.pc = "card2" /\ s.seq = obs.saved[2]

(***************************************************************************)
(* C6 as stated. The second of two consecutive scanAndMerge calls (no      *)
(* switch or clearCache between them) whose texts normalize to the same    *)
(* string reports fromCache and calls the external service zero times.     *)
(***************************************************************************)
C6_AnyRepeat ==
  lastCall.follows => lastCall.fromCache /\ lastCall.llm = 0

(***************************************************************************)
(* C6. Cache-hit short circuit: the second of two such calls reports       *)
(* fromCache and calls the external service zero times when the first call *)
(* got an extraction result (from the service or the cache) and the second *)
(* text has at least 100 characters.                                       *)
(***************************************************************************)
C6_CacheHitShortCircuit ==
  lastCall.followsOk /\ lastCall.len >= MIN_TEXT_LENGTH =>
    lastCall.fromCache /\ lastCall.llm = 0

\* A repeat served from the cache after a call the service answered.
C6_Witness ==
  /\ lastCall.followsOk
  /\ lastCall.len >= MIN_TEXT_LENGTH
  /\ lastCall.fromCache
  /\ Len(inserted) = 1
  /\ Len(obs.saved) = 2

(***************************************************************************)
(* C24. Subject switch. A scan that found a switch has, before its         *)
(* extraction starts, an empty extraction cache, no profile on display and *)
(* no benefit card on display other than the one looked up for the new     *)
(* patient. Every cached result is of the patient being tracked, so a      *)
(* result cached while another patient was tracked is never a cache hit:   *)
(* a hit returns a result of the tracked patient, who is the patient the   *)
(* scanned text names, if it names one.                                    *)
(***************************************************************************)
C24_SwitchClears ==
  /\ \A s \in scans :
       s.isPatientSwitch /\ s.pc \in {"card", "hash"} =>
         /\ cache = <<>>
         /\ currentPatientCtx = NoCtx
         /\ s.pc = "card" => currentCard = NoCard
         /\ currentCard # NoCard =>
              toLowerCase(currentCard.patientName) = toLowerCase(s.newName)
  /\ \A i \in 1..Len(cache) :
       toLowerCase(cache[i].result.patientName) = toLowerCase(lastPatientName)
  /\ \A s \in scans :
       s.via = "cache" =>
         /\ toLowerCase(s.llmResult.patientName) = toLowerCase(lastPatientName)
         /\ s.newName # NoName =>
              toLowerCase(s.llmResult.patientName) = toLowerCase(s.newName)

\* Patient 1's extraction result was cached and the profile stored; the scan of
\* patient 2's text found the switch and its extraction has missed the cache.
C24_Witness ==
  /\ HasKey(store, Name(1, 0))
  /\ lastCall.ok
  /\ cache = <<>>
  /\ \E s \in scans :
       s.isPatientSwitch /\ s.newName = Name(2, 0) /\ s.pc = "config"

(***************************************************************************)
(* The merge model: scanAndMerge calls for one patient, one at a time (as  *)
(* the side panel issues them), each served by the external service, by    *)
(* the extraction cache or by the regex fallback.                          *)
(***************************************************************************)
MergeBodies == 1..7

MergeTexts == {Text(Name(1, 0), "lines", b, 1, 120) : b \in MergeBodies}

\* The benefit cards scanAndMerge is called with in the merge model.
MergeCards ==
  { NoCard,
    BenefitCard(<<Row("D0100-D0999", Prim(100)), Row("D2400-D2999", Prim(50))>>,
                <<>>, <<>>) }

InitMerge == now = 1 /\ store = <<>> /\ cardCache = <<>> /\ InitQuiet

PanelVars == <<OtherVars, generated, isScanning, pendingScanText, lastPatientName, currentPatientCtx,
               currentCard, currentPageType, requests, scans, lastCall>>

\* _mergeFromLLM / _regexFallback from load to the end of save.
MergeAndSave(text, benefitCard, via, llmResult, seq) ==
  LET name == IF via = "regex" THEN _extractPatientName(text) ELSE llmResult.patientName
      ctx == LoadOrEmpty(store, name, now)
      merged == IF via = "regex" THEN RegexInto(ctx, text, now)
                ELSE MergeLLMInto(ctx, llmResult, now)
  IN /\ store' = save(store, merged)
     /\ lastSave' = SaveRecord(store, Assign(store, [key |-> toLowerCase(name),
                                                     ctx |-> merged]),
                               toLowerCase(name), save(store, merged))
     /\ lastMerge' = [seq |-> seq, text |-> text, key |-> toLowerCase(name),
                      before |-> ProfileAt(store, toLowerCase(name)), after |-> merged,
                      via |-> via, result |-> llmResult, card |-> benefitCard,
                      actions |-> ReturnedActions(via, llmResult, merged, benefitCard, now)]

\* scanAndMerge on a cache miss, the service answering.
MergeFromService ==
  \E text \in MergeTexts, answer \in MergeAnswers, card \in MergeCards :
    /\ obs.count < MaxMerges
    /\ ~CacheHas(cache, _hashText(text))
    /\ LET result == [patientName |-> _extractPatientName(text),
                      context |-> answer.context, actions |-> answer.actions,
                      sectionsDetected |-> answer.sectionsDetected,
                      hash |-> _hashText(text), fromCache |-> FALSE]
       IN /\ cache' = _cacheResult(cache, _hashText(text), result)
          /\ inserted' = Append(inserted, _hashText(text))
          /\ MergeAndSave(text, card, "llm", result, obs.count + 1)
    /\ obs' = [obs EXCEPT !.count = @ + 1]
    /\ UNCHANGED <<now, cardCache, PanelVars>>

\* scanAndMerge on a cache hit.
MergeFromCache ==
  \E text \in MergeTexts, card \in MergeCards :
    /\ obs.count < MaxMerges
    /\ CacheHas(cache, _hashText(text))
    /\ MergeAndSave(text, card, "cache",
                    [Lookup(cache, _hashText(text)).result EXCEPT !.fromCache = TRUE],
                    obs.count + 1)
    /\ obs' = [obs EXCEPT !.count = @ + 1]
    /\ UNCHANGED <<now, cache, inserted, cardCache, PanelVars>>

\* scanAndMerge on a cache miss with no API key or a failed call.
MergeFromRegex ==
  \E text \in MergeTexts, card \in MergeCards :
    /\ obs.count < MaxMerges
    /\ ~CacheHas(cache, _hashText(text))
    /\ MergeAndSave(text, card, "regex", NoResult, obs.count + 1)
    /\ obs' = [obs EXCEPT !.count = @ + 1]
    /\ UNCHANGED <<now, cache, inserted, cardCache, PanelVars>>

NextMerge == MergeFromService \/ MergeFromCache \/ MergeFromRegex

SpecMerge == InitMerge /\ [][NextMerge]_vars

(***************************************************************************)
(* C1. Monotonic merge: every leaf of a profile section that was non-null  *)
(* in the stored profile before a scanAndMerge call is non-null in the     *)
(* profile the call stores.                                                *)
(***************************************************************************)
RECURSIVE LeavesKept(_, _)
LeavesKept(before, after) ==
  \A k \in DOMAIN before :
    CASE IsNullish(before[k]) -> TRUE
      [] before[k].t = "obj" ->
           LeavesKept(before[k].o,
                      IF Get(after, k).t = "obj" THEN after[k].o ELSE EmptyObj)
      [] OTHER -> ~IsNullish(Get(after, k))

C1_MonotonicMerge ==
  lastMerge.before.patientName # NoName =>
    \A section \in SectionNames :
      LeavesKept(lastMerge.before[section], lastMerge.after[section])

(***************************************************************************)
(* C12. tabsScanned covers what was merged: after a scanAndMerge call,     *)
(* every section of the profile whose data the call changed is a member of *)
(* the tabsScanned of the profile it stored.                               *)
(***************************************************************************)
C12_MergedAreScanned ==
  lastMerge.seq > 0 =>
    \A section \in SectionNames :
      lastMerge.after[section] # lastMerge.before[section] =>
        section \in TabSet(lastMerge.after)

(***************************************************************************)
(* C13. Every section returned by the extraction is merged: after a        *)
(* scanAndMerge call served by extract, for each section the returned      *)
(* context contains, every non-null leaf of the returned section equals    *)
(* the corresponding leaf of the section in the profile the call stored.   *)
(***************************************************************************)
RECURSIVE LeavesStored(_, _)
LeavesStored(returned, stored) ==
  \A k \in DOMAIN returned :
    CASE IsNullish(returned[k]) -> TRUE
      [] returned[k].t = "obj" ->
           /\ Get(stored, k).t = "obj"
           /\ LeavesStored(returned[k].o, stored[k].o)
      [] OTHER -> Get(stored, k) = returned[k]

C13_ReturnedAreMerged ==
  lastMerge.via \in {"llm", "cache"} =>
    \A section \in SectionNames :
      Truthy(Get(lastMerge.result.context, section)) =>
        LeavesStored(lastMerge.result.context[section].o, lastMerge.after[section])

(***************************************************************************)
(* C14. Array merge rule: after a scanAndMerge call served by extract, for *)
(* every array field of a returned section that the merge handles, an      *)
(* empty incoming array leaves a stored non-empty array as it was, and a   *)
(* non-empty incoming array is the stored field afterwards.                *)
(***************************************************************************)
C14_ArrayMergeRule ==
  lastMerge.via \in {"llm", "cache"} =>
    \A section \in MergedSections \cup {"forms"} :
      Truthy(Get(lastMerge.result.context, section)) =>
        LET incoming == lastMerge.result.context[section].o
            before == lastMerge.before[section]
            after == lastMerge.after[section]
        IN \A k \in DOMAIN incoming :
             incoming[k].t = "arr" =>
               IF incoming[k].a # <<>> THEN Get(after, k) = incoming[k]
               ELSE Get(before, k).t = "arr" /\ Get(before, k).a # <<>> =>
                      Get(after, k) = Get(before, k)

(***************************************************************************)
(* C15. todayAppt is replaced, not merged: after a scanAndMerge call whose *)
(* observation includes a todayAppt, the stored todayAppt is the incoming  *)
(* one exactly; after a call whose observation includes none (a null or    *)
(* absent todayAppt, or the regex fallback), the stored todayAppt is the   *)
(* one stored before.                                                      *)
(***************************************************************************)
C15_TodayApptReplaced ==
  lastMerge.seq > 0 =>
    LET incoming == IF lastMerge.via = "regex" THEN Undefined
                    ELSE Get(lastMerge.result.context, "todayAppt")
    IN IF Truthy(incoming) THEN lastMerge.after.todayAppt = incoming
       ELSE lastMerge.after.todayAppt = lastMerge.before.todayAppt

\* A stored todayAppt has been replaced by one with other fields.
C15_Witness ==
  /\ lastMerge.before.todayAppt = TodaySeen
  /\ lastMerge.after.todayAppt = TodayLater

(***************************************************************************)
(* C16. The actions scanAndMerge(pageText, benefitCard) returns are the    *)
(* list generate returns for the profile the call merged and stored and    *)
(* that benefit card, whichever way the call was served.                   *)
(***************************************************************************)
C16_ActionsFromRules ==
  lastMerge.seq > 0 =>
    lastMerge.actions = generate(lastMerge.after, lastMerge.card, now)

(***************************************************************************)
(* The cache model: extract calls for one patient, one at a time, over     *)
(* more distinct page texts than the cache holds. New texts come in the    *)
(* order of their bodies; the first ExtraHashes texts and the latest text  *)
(* come back at any time, as hits while cached and as misses once evicted. *)
(***************************************************************************)
CachePage(b) == Text(Name(1, 0), "lines", b, 1, 120)

CachePages == {CachePage(b) : b \in 1..(MAX_CACHE + ExtraHashes)}

Inserted(hash) == \E i \in 1..Len(inserted) : inserted[i] = hash

\* The page texts a miss may come from.
MissPages ==
  {t \in CachePages :
     /\ ~CacheHas(cache, _hashText(t))
     /\ \/ t.body <= ExtraHashes
        \/ /\ ~Inserted(_hashText(t))
           /\ \A b \in 1..(t.body - 1) : Inserted(_hashText(CachePage(b)))}

\* The page texts a hit is tried with: the first ones and the latest one.
HitPages ==
  {t \in CachePages :
     /\ CacheHas(cache, _hashText(t))
     /\ t.body <= ExtraHashes \/ _hashText(t) = inserted[Len(inserted)]}

InitCache == now = 1 /\ store = <<>> /\ cardCache = <<>> /\ InitQuiet

CacheRest == <<OtherVars, generated, now, store, cardCache, isScanning, pendingScanText, lastPatientName,
               currentPatientCtx, currentCard, currentPageType, requests, scans, obs,
               lastSave, lastMerge>>

\* extract on a miss, the service answering: _cacheResult stores the result.
ExtractMiss ==
  \E text \in MissPages :
    /\ Len(inserted) < MAX_CACHE + ExtraHashes
    /\ LET answer == Answer(EmptyObj, <<>>)
           result == [patientName |-> _extractPatientName(text),
                      context |-> answer.context, actions |-> answer.actions,
                      sectionsDetected |-> answer.sectionsDetected,
                      hash |-> _hashText(text), fromCache |-> FALSE]
       IN cache' = _cacheResult(cache, _hashText(text), result)
    /\ inserted' = Append(inserted, _hashText(text))
    /\ lastCall' = [NoCall EXCEPT !.norm = Normalize(text), !.ok = TRUE, !.llm = 1,
                                  !.len = text.len]
    /\ UNCHANGED CacheRest

\* extract on a hit: this._cache.get(hash) is returned.
ExtractHit ==
  \E text \in HitPages :
    /\ lastCall' = [NoCall EXCEPT !.norm = Normalize(text), !.ok = TRUE,
                                  !.fromCache = TRUE, !.len = text.len]
    /\ UNCHANGED <<generated, cache, inserted>>
    /\ UNCHANGED CacheRest

\* clearCache(), called on a patient switch.
CacheCleared ==
  /\ cache # <<>>
  /\ cache' = clearCache
  /\ inserted' = <<>>
  /\ lastCall' = NoCall
  /\ UNCHANGED CacheRest

NextCache == ExtractMiss \/ ExtractHit \/ CacheCleared

SpecCache == InitCache /\ [][NextCache]_vars

Distinct(seq) == \A i, j \in 1..Len(seq) : i # j => seq[i] # seq[j]

(***************************************************************************)
(* C7. Extraction cache bound: the cache never holds more than 50 entries; *)
(* once 50+k results with distinct hashes have been inserted since the     *)
(* last clearCache (k >= 1), it holds exactly 50 entries and the k         *)
(* earliest-inserted hashes are absent.                                    *)
(***************************************************************************)
C7_CacheBound ==
  /\ Len(cache) <= MAX_CACHE
  /\ Distinct(inserted) /\ Len(inserted) > MAX_CACHE =>
       /\ Len(cache) = MAX_CACHE
       /\ \A i \in 1..Len(inserted) :
            CacheHas(cache, inserted[i]) <=> i > Len(inserted) - MAX_CACHE

\* Two more distinct results than the cache holds have been inserted.
C7_Witness ==
  /\ Distinct(inserted)
  /\ Len(inserted) = MAX_CACHE + 2
  /\ Len(cache) = MAX_CACHE
  /\ ~CacheHas(cache, inserted[2])

\* The place in the insertion history where a cached hash was last inserted.
InsertedAt(hash) ==
  CHOOSE i \in 1..Len(inserted) :
    inserted[i] = hash /\ \A j \in (i + 1)..Len(inserted) : inserted[j] # hash

\* The cached hashes inserted before every other cached hash.
Oldest(c) ==
  {c[i].key : i \in {i \in 1..Len(c) :
                       \A j \in 1..Len(c) : InsertedAt(c[i].key) <= InsertedAt(c[j].key)}}

StampOf(pattern, i, n) ==
  CASE pattern = "level" -> 1
    [] pattern = "firstFresh" -> IF i <= 2 THEN 2 ELSE 1
    [] pattern = "lastStale" -> IF i = n THEN 1 ELSE 2
    [] pattern = "allFresh" -> 2

\* Patient 1 has had the Profile tab scanned; the others no tab yet.
FilledStore(n, pattern) ==
  [i \in 1..n |->
     [key |-> Name(i, 0),
      ctx |-> IF i = 1
              THEN RegexInto(_emptyContext(Name(1, 0), 1),
                             Text(Name(1, 0), "lines", 1, 1, 120),
                             StampOf(pattern, 1, n))
              ELSE [_emptyContext(Name(i, 0), 1)
                      EXCEPT !.lastUpdated = StampOf(pattern, i, n)]]]

\* The history of tabsScanned: every (patient, section) a stored profile has held.
TabsOf(all) ==
  UNION {{<<all[i].key, section>> : section \in TabSet(all[i].ctx)} : i \in 1..Len(all)}

TabsAfterMerge == obs.tabs \cup {<<lastMerge'.key, section>> : section \in TabSet(lastMerge'.after)}

StoreSubjects == {1, 3} \cup (MAX_PROFILES + 1)..(MAX_PROFILES + ExtraSubjects)

InitStore ==
  /\ now = 2
  /\ store \in {FilledStore(MAX_PROFILES, "level"),
                FilledStore(MAX_PROFILES, "firstFresh"),
                FilledStore(MAX_PROFILES - 1, "lastStale"),
                FilledStore(MAX_PROFILES, "allFresh")}
  /\ cardCache = <<>>
  /\ InitPanel
  /\ InitOther
  /\ obs = [NoObs EXCEPT !.tabs = TabsOf(store)]

StoreText(i) == Text(Name(i, 0), "lines", 3, 1, 120)

\* scanAndMerge by the regex fallback, from load to the end of save.
StoreScan ==
  \E i \in StoreSubjects :
    /\ obs.count < MaxWrites
    /\ MergeAndSave(StoreText(i), NoCard, "regex", NoResult, obs.count + 1)
    /\ obs' = [obs EXCEPT !.count = @ + 1, !.tabs = TabsAfterMerge]
    /\ UNCHANGED <<now, cache, inserted, cardCache, PanelVars>>

\* scanAndMerge with an API key set: extract answers from the cache or from
\* the service, _mergeFromLLM merges and saves.
StoreExtract ==
  \E i \in StoreSubjects, answer \in ScanAnswers :
    /\ obs.count < MaxWrites
    /\ LET hash == _hashText(StoreText(i))
           result == IF CacheHas(cache, hash)
                     THEN [Lookup(cache, hash).result EXCEPT !.fromCache = TRUE]
                     ELSE [patientName |-> _extractPatientName(StoreText(i)),
                           context |-> answer.context, actions |-> answer.actions,
                           sectionsDetected |-> answer.sectionsDetected,
                           hash |-> hash, fromCache |-> FALSE]
       IN /\ cache' = IF CacheHas(cache, hash) THEN cache
                      ELSE _cacheResult(cache, hash, result)
          /\ inserted' = IF CacheHas(cache, hash) THEN inserted
                         ELSE Append(inserted, hash)
          /\ MergeAndSave(StoreText(i), NoCard,
                          IF CacheHas(cache, hash) THEN "cache" ELSE "llm",
                          result, obs.count + 1)
    /\ obs' = [obs EXCEPT !.count = @ + 1, !.tabs = TabsAfterMerge]
    /\ UNCHANGED <<now, cardCache, PanelVars>>

NextStore == StoreScan \/ StoreExtract \/ Tick

SpecStore == InitStore /\ [][NextStore]_vars

(***************************************************************************)
(* C9. Profile store capacity: after every save the store holds at most    *)
(* 100 profiles; a save of a patient not stored before that brings the     *)
(* count to 101 evicts exactly one profile, one whose lastUpdated is the   *)
(* oldest, and no other save evicts anything.                              *)
(***************************************************************************)
C9_ProfileCapacity ==
  /\ Len(store) <= MAX_PROFILES
  /\ IF lastSave.fresh /\ lastSave.count = MAX_PROFILES
     THEN /\ Cardinality(lastSave.evicted) = 1
          /\ Len(store) = MAX_PROFILES
          /\ \A e \in lastSave.evicted :
               \A i \in 1..Len(store) : ProfileStamp(e) <= ProfileStamp(store[i])
     ELSE lastSave.evicted = {}

\* A new patient has been saved into the full store and the profile evicted is
\* the oldest one, which is not the first one stored.
C9_Witness ==
  /\ lastSave.fresh
  /\ lastSave.count = MAX_PROFILES
  /\ HasKey(store, lastSave.key)
  /\ HasKey(store, Name(1, 0))
  /\ \E e \in lastSave.evicted : e.key = Name(3, 0)

(***************************************************************************)
(* C11. Section-union monotonicity, as stated: every section a patient's   *)
(* stored tabsScanned has ever held is in the tabsScanned of the profile   *)
(* the latest scanAndMerge for that patient stored.                        *)
(***************************************************************************)
C11_NeverShrinks ==
  \A pair \in obs.tabs :
    pair[1] = lastMerge.key => pair[2] \in TabSet(lastMerge.after)

(***************************************************************************)
(* C11. Section-union monotonicity while the profile stays stored: across  *)
(* every step, the tabsScanned of each profile that is in the store before *)
(* and after the step keeps all its sections.                              *)
(***************************************************************************)
C11_UnionMonotonic ==
  [][\A i \in 1..Len(store) :
       HasKey(store', store[i].key) =>
         TabSet(store[i].ctx) \subseteq TabSet(Lookup(store', store[i].key).ctx)]_vars

\* A stored profile with a section scanned has been merged again, from the
\* service's answer, and has gained a section.
C11_Witness ==
  /\ lastMerge.before.tabsScanned # <<>>
  /\ TabSet(lastMerge.before) \subseteq TabSet(lastMerge.after)
  /\ TabSet(lastMerge.after) # TabSet(lastMerge.before)
  /\ lastMerge.after._lastHash # NoHash

(***************************************************************************)
(* The card model: the benefit card cache near its capacity, filled with   *)
(* MAX_CARDS or one fewer cards in one of the three orders of age; cards   *)
(* already cached and new ones are cached as the clock moves.              *)
(***************************************************************************)
FilledCards(n, pattern) ==
  [i \in 1..n |->
     [key |-> _cacheKey(Card(i, Name(i, 0), 0)), card |-> Card(i, Name(i, 0), 0),
      cachedAt |-> StampOf(pattern, i, n)]]

CardSubjects == {1, 3} \cup (MAX_CARDS + 1)..(MAX_CARDS + ExtraCards)

CardsToCache == {Card(i, Name(i, 0), 0) : i \in CardSubjects} \cup {NoCard}

InitCards ==
  /\ now = 2
  /\ store = <<>>
  /\ cardCache \in {FilledCards(MAX_CARDS, "level"),
                    FilledCards(MAX_CARDS, "firstFresh"),
                    FilledCards(MAX_CARDS - 1, "lastStale")}
  /\ InitQuiet

\* storage.cacheCard(card), as captureAndExtract calls it.
CacheCard ==
  \E card \in CardsToCache :
    /\ obs.count < MaxWrites
    /\ obs' = [obs EXCEPT !.count = @ + 1]
    /\ cardCache' = cacheCard(cardCache, card, now)
    /\ lastSave' = SaveRecord(cardCache,
                              IF _cacheKey(card) = NullKey THEN cardCache
                              ELSE Assign(cardCache, [key |-> _cacheKey(card),
                                                      card |-> card, cachedAt |-> now]),
                              _cacheKey(card), cacheCard(cardCache, card, now))
    /\ UNCHANGED <<now, cache, inserted, store, lastMerge, PanelVars>>

NextCards == CacheCard \/ Tick

SpecCards == InitCards /\ [][NextCards]_vars

(***************************************************************************)
(* C10. Card cache capacity: after every cacheCard the cache holds at most *)
(* 200 entries and no key twice; the entries a cacheCard removes are ones  *)
(* whose cachedAt is the oldest; caching a card whose key is present sets  *)
(* its cachedAt to the time of the call and leaves the count as it was,    *)
(* evicting nothing.                                                       *)
(***************************************************************************)
C10_CardCapacity ==
  /\ Len(cardCache) <= MAX_CARDS
  /\ Cardinality({cardCache[i].key : i \in 1..Len(cardCache)}) = Len(cardCache)
  /\ \A e \in lastSave.evicted :
       \A i \in 1..Len(cardCache) : CardStamp(e) <= CardStamp(cardCache[i])
  /\ lastSave.count > 0 /\ lastSave.key # NullKey /\ ~lastSave.fresh =>
       /\ lastSave.evicted = {}
       /\ Len(cardCache) = lastSave.count
       /\ Lookup(cardCache, lastSave.key).cachedAt = lastSave.at

\* A card whose key was present has been cached again at a later time, in the
\* full cache.
C10_Witness ==
  /\ lastSave.count = MAX_CARDS
  /\ ~lastSave.fresh
  /\ lastSave.key = _cacheKey(Card(3, Name(3, 0), 0))
  /\ Lookup(cardCache, lastSave.key).cachedAt = 3
  /\ \E i \in 1..Len(cardCache) : cardCache[i].cachedAt = 1

(***************************************************************************)
(* The key model: cards with every combination of identifiers, written in  *)
(* capitals between blanks, as blanks only or missing, are cached from an  *)
(* empty card cache and looked up by the key built from three identifiers  *)
(* as a page gives them. KeySubscriberIds, KeyNames and KeyPayers are all  *)
(* the spellings of the identifiers.                                       *)
(***************************************************************************)
KeySubscriberIds == {0, 1, -1, Blanks}

KeyNames == {NoName, Name(1, 0), Name(1, 1), Name(0, 1)}

KeyPayers == {0, 1, -1}

\* The cards write their identifiers in capitals or as blanks, or lack them.
KeyCards ==
  {Card(subscriberId, patientName, payer) :
     subscriberId \in {0, -1, Blanks}, patientName \in {NoName, Name(1, 1), Name(0, 1)},
     payer \in {0, -1}}

InitKeys == now = 1 /\ store = <<>> /\ cardCache = <<>> /\ InitQuiet

\* storage.cacheCard(card)
KeyCacheCard ==
  \E card \in KeyCards :
    /\ obs.cached.n < MaxWrites
    /\ cardCache' = cacheCard(cardCache, card, now)
    /\ obs' = [obs EXCEPT !.cached = [n |-> @.n + 1, card |-> card, before |-> cardCache],
                          !.looked = NoObs.looked]
    /\ UNCHANGED <<now, cache, inserted, store, lastSave, lastMerge, PanelVars>>

\* cacheKeyFromIdentifiers(patientName, subscriberId, payer), getCachedCard(key)
\* and, if a card is found, currentCard = cached.card.
KeyLookup ==
  \E patientName \in {NoName, Name(1, 0)}, subscriberId \in {0, 1, Blanks},
     payer \in {0, 1} :
    LET key == cacheKeyFromIdentifiers(patientName, subscriberId, payer)
        card == getCachedCard(cardCache, key)
    IN /\ obs' = [obs EXCEPT !.looked = [n |-> 1, patientName |-> patientName,
                                         subscriberId |-> subscriberId, payer |-> payer,
                                         key |-> key, card |-> card]]
       /\ currentCard' = IF card # NoCard THEN card ELSE currentCard
       /\ UNCHANGED <<OtherVars, generated, now, cache, inserted, store, cardCache, isScanning,
                      pendingScanText, lastPatientName, currentPatientCtx,
                      currentPageType, requests, scans, lastCall, lastSave, lastMerge>>

NextKeys == KeyCacheCard \/ KeyLookup

SpecKeys == InitKeys /\ [][NextKeys]_vars

\* The identifiers of a card and three identifiers are the same values once
\* trimmed and lower-cased.
SameIdentifiers(card, patientName, subscriberId, payer) ==
  /\ TrimLower(card.subscriberId) = TrimLower(subscriberId)
  /\ toLowerCase(card.patientName) = toLowerCase(patientName)
  /\ TrimLower(card.payer) = TrimLower(payer)

\* The key the priority chain gives three trimmed and lower-cased identifiers.
ChainKey(name, subId, payer) ==
  IF subId # 0 /\ payer # 0 THEN Key("sub|pay", subId, NoName, payer)
  ELSE IF name # NoName /\ payer # 0 THEN Key("name|pay", 0, name, payer)
  ELSE IF subId # 0 THEN Key("sub", subId, NoName, 0)
  ELSE IF name # NoName THEN Key("name", 0, name, 0)
  ELSE NullKey

(***************************************************************************)
(* C25. Key derivation: every cached card sits under the key that          *)
(* cacheKeyFromIdentifiers builds from its three identifiers, however they *)
(* are written, which is the key of the chain subscriber id + payer >      *)
(* name + payer > subscriber id > name over the trimmed, lower-cased       *)
(* values; and a lookup by the key built from three identifiers returns    *)
(* the cached card that has the same identifiers (obs.looked is the last   *)
(* lookup since the last cacheCard).                                       *)
(***************************************************************************)
C25_SameKey ==
  /\ \A i \in 1..Len(cardCache) :
       \A patientName \in KeyNames, subscriberId \in KeySubscriberIds, payer \in KeyPayers :
         SameIdentifiers(cardCache[i].card, patientName, subscriberId, payer) =>
           /\ cacheKeyFromIdentifiers(patientName, subscriberId, payer) = cardCache[i].key
           /\ cardCache[i].key = _cacheKey(cardCache[i].card)
           /\ cardCache[i].key = ChainKey(toLowerCase(patientName), TrimLower(subscriberId),
                                          TrimLower(payer))
  /\ obs.cached.n > 0 /\ _cacheKey(obs.cached.card) # NullKey =>
       getCachedCard(cardCache,
                     cacheKeyFromIdentifiers(obs.cached.card.patientName,
                                             obs.cached.card.subscriberId,
                                             obs.cached.card.payer)) = obs.cached.card
  /\ obs.looked.n > 0 =>
       \A i \in 1..Len(cardCache) :
         SameIdentifiers(cardCache[i].card, obs.looked.patientName,
                         obs.looked.subscriberId, obs.looked.payer) =>
           obs.looked.card = cardCache[i].card

\* A card cached with its subscriber id and payer in capitals has been found by
\* a lookup with the three identifiers in lower case, under the compound key.
C25_Witness ==
  /\ obs.looked.n > 0
  /\ obs.looked.subscriberId = 1 /\ obs.looked.payer = 1
  /\ obs.looked.patientName = Name(1, 0)
  /\ obs.looked.key.kind = "sub|pay"
  /\ obs.looked.card = Card(-1, Name(1, 1), -1)
  /\ currentCard = obs.looked.card
  /\ Len(cardCache) = 2

(***************************************************************************)
(* C26. A card whose subscriber id and patient name are both blank is not  *)
(* cacheable: cacheCard leaves the card cache as it was, and getCachedCard *)
(* of a null key returns null.                                             *)
(***************************************************************************)
C26_BlankNotCached ==
  /\ /\ obs.cached.n > 0
     /\ TrimLower(obs.cached.card.subscriberId) = 0
     /\ toLowerCase(obs.cached.card.patientName) = NoName
     => cardCache = obs.cached.before
  /\ \A i \in 1..Len(cardCache) : cardCache[i].key # NullKey
  /\ obs.looked.n > 0 /\ obs.looked.key = NullKey => obs.looked.card = NoCard
  /\ getCachedCard(cardCache, NullKey) = NoCard

\* A card with a payer, a subscriber id of blanks and a name of blanks has been
\* passed to cacheCard after another card was cached, and a lookup with no
\* identifiers has returned null.
C26_Witness ==
  /\ obs.cached.n = 2
  /\ obs.cached.card = Card(Blanks, Name(0, 1), -1)
  /\ Len(cardCache) = 1
  /\ cardCache = obs.cached.before
  /\ obs.looked.n > 0
  /\ obs.looked.key = NullKey
  /\ obs.looked.card = NoCard

(***************************************************************************)
(* The rule model: actionEngine.generate called, and called again, on the  *)
(* profile and the benefit card the side panel holds, as the clock moves   *)
(* (in days). The profiles are ones merges leave: some tabs scanned, an    *)
(* insurance verified on Dec 1, on Dec 2 or at no known date, an age, a    *)
(* todayAppt with codes of the CDT table in either letter case or unknown  *)
(* to it; the cards have coverage rows of 0, 50, 80 and 100 percent and    *)
(* non-covered strings naming a category, a code or nothing.               *)
(***************************************************************************)
RuleTabs ==
  { <<>>, <<"insurance", "billing">>,
    <<"profile", "insurance", "billing", "recare", "charting", "forms", "perio">> }

VerifiedOn(date) ==
  ("carrier" :> Prim("Delta")) @@ ("planName" :> Prim("PPO")) @@
  ("lastVerified" :> Prim(date)) @@ ("hasMaxDeductInfo" :> Prim("false"))

RuleInsurance ==
  { EmptyObj, InsuranceSeen.o, VerifiedOn("Dec 1 at 9:00AM"), VerifiedOn("Dec 2 at 3:24PM"),
    [VerifiedOn("Dec 1 at 9:00AM") EXCEPT !["carrier"] = Null] }

Appt(codes) == Obj(("type" :> Prim("exam")) @@ ("codes" :> Arr(codes)))

RuleAppts ==
  { Null, TodayLater, Appt(<<"D2740">>), Appt(<<"d2740">>), Appt(<<"D0150", "D8090">>),
    Appt(<<"D1206">>), Appt(<<"D9999">>), Appt(<<"D2740", "D2740">>) }

RuleAges == { Undefined, Prim("18"), Prim("34"), Prim("70") }

\* The sections of a profile whose tabs show something to act on.
Flagged ==
  [billing |-> BillingSeen.o,
   recare |-> ("noRecareFound" :> Prim("true")),
   charting |-> ChartingSeen.o,
   forms |-> FormsSeen.o,
   perio |-> ("hasPerioData" :> Prim("true"))]

RuleProfile(tabs, insurance, appt, age, flagged) ==
  LET empty == _emptyContext(Name(1, 0), 1)
      has(section) == flagged /\ section \in {tabs[i] : i \in 1..Len(tabs)}
  IN [empty EXCEPT !.tabsScanned = tabs,
                   !.insurance = insurance,
                   !.todayAppt = appt,
                   !.profile = IF age = Undefined THEN EmptyObj ELSE ("age" :> age),
                   !.billing = IF has("billing") THEN Flagged.billing ELSE @,
                   !.recare = IF has("recare") THEN Flagged.recare ELSE @,
                   !.charting = IF has("charting") THEN Flagged.charting ELSE @,
                   !.forms = IF has("forms") THEN Flagged.forms ELSE @,
                   !.perio = IF has("perio") THEN Flagged.perio ELSE @]

RuleProfiles ==
  { RuleProfile(tabs, insurance, appt, age, flagged) :
      tabs \in RuleTabs, insurance \in RuleInsurance, appt \in RuleAppts,
      age \in RuleAges, flagged \in BOOLEAN }

RuleTables ==
  { <<Row("D0100-D0999", Prim(100)), Row("D1000-D1999", Prim(100)),
      Row("D2400-D2999", Prim(0)), Row("D8000-D8999", Prim(50))>>,
    <<Row("D0100-D0999", Prim(80)), Row("D2400-D2999", Prim(50)),
      Row("D8000-D8999", Null)>> }

RuleNonCovered ==
  { <<>>, << <<"Orthodontics">> >>, << <<"Implants">>, <<"Crowns", "D2740">> >>,
    << <<>> >> }

RuleAgeLimits == { <<>>, <<[service |-> "Fluoride", limit |-> "under 19"]>> }

RuleCards ==
  { BenefitCard(table, nonCovered, ageLimits) :
      table \in RuleTables, nonCovered \in RuleNonCovered, ageLimits \in RuleAgeLimits }
    \cup {NoCard}

InitRules ==
  /\ now = 1
  /\ store = <<>>
  /\ cardCache = <<>>
  /\ cache = <<>>
  /\ inserted = <<>>
  /\ isScanning = FALSE
  /\ pendingScanText = NoText
  /\ lastPatientName = Name(1, 0)
  /\ currentPatientCtx \in RuleProfiles
  /\ currentCard \in RuleCards
  /\ currentPageType = PATIENT_VIEW
  /\ requests = NoRequests
  /\ scans = {}
  /\ obs = NoObs
  /\ lastCall = NoCall
  /\ lastSave = NoSave
  /\ lastMerge = NoMerge
  /\ generated = NoGenerated
  /\ InitOther

RulesRest == <<OtherVars, now, cache, inserted, store, cardCache, isScanning, pendingScanText,
               lastPatientName, currentPatientCtx, currentCard, currentPageType,
               requests, scans, obs, lastCall, lastSave, lastMerge>>

\* PP.actionEngine.generate(ctx, benefitCard)
Generate ==
  /\ generated.calls = 0
  /\ generated' = [calls |-> 1, ctx |-> currentPatientCtx, card |-> currentCard,
                   at |-> now, actions |-> generate(currentPatientCtx, currentCard, now),
                   againAt |-> 0, again |-> <<>>]
  /\ UNCHANGED RulesRest

\* The same call once more, on the profile and the card of the first call.
GenerateAgain ==
  /\ generated.calls = 1
  /\ generated' = [generated EXCEPT !.calls = 2, !.againAt = now,
                                    !.again = generate(currentPatientCtx, currentCard, now)]
  /\ UNCHANGED RulesRest

NextRules == Generate \/ GenerateAgain \/ Tick

SpecRules == InitRules /\ [][NextRules]_vars

(***************************************************************************)
(* C17. generate returns its actions in non-decreasing priority number,    *)
(* and actions of equal priority in the order their rules fired in (the    *)
(* order of their ids).                                                    *)
(***************************************************************************)
C17_SortedStable ==
  \A i, j \in 1..Len(generated.actions) :
    i < j =>
      \/ generated.actions[i].priority < generated.actions[j].priority
      \/ /\ generated.actions[i].priority = generated.actions[j].priority
         /\ generated.actions[i].id < generated.actions[j].id

\* A list the sort has reordered, of all four priorities, two actions of it
\* with the same priority.
C17_Witness ==
  /\ \E i, j \in 1..Len(generated.actions) :
       i < j /\ generated.actions[i].id > generated.actions[j].id
  /\ \E i, j \in 1..Len(generated.actions) :
       i < j /\ generated.actions[i].priority = generated.actions[j].priority
  /\ {generated.actions[i].priority : i \in 1..Len(generated.actions)} = 1..4

CoverageActions(code) ==
  {i \in 1..Len(generated.actions) :
     /\ generated.actions[i].category = "coverage"
     /\ generated.actions[i].title \in {"not covered", "only covered", "may be excluded"}
     /\ generated.actions[i].arg[1] = code}

CriticalFor(code) ==
  {i \in CoverageActions(code) : generated.actions[i].priority = PRIORITY["CRITICAL"]}

ZeroRow(code, card) ==
  /\ lookup(code) # NoEntry
  /\ \E r \in 1..Len(card.coverageTable) :
       /\ card.coverageTable[r].cdtRange = lookup(code).cdtRange
       /\ card.coverageTable[r].inNetwork = Prim(0)

OneCodeAtZero ==
  /\ generated.calls > 0
  /\ generated.card # NoCard
  /\ Len(ApptCodes(generated.ctx.todayAppt)) = 1
  /\ ZeroRow(ApptCodes(generated.ctx.todayAppt)[1], generated.card)

\* An entry of the card's non-covered list contains the code, in any letter
\* case (the empty entry is contained in every string).
ListedNonCovered(code, card) ==
  \E i \in 1..Len(card.nonCovered) :
    \/ card.nonCovered[i] = <<>>
    \/ \E w \in 1..Len(card.nonCovered[i]) :
         LowerWord(card.nonCovered[i][w]) = LowerWord(code)

RowPcts(code, card) ==
  {card.coverageTable[r].inNetwork :
     r \in {q \in 1..Len(card.coverageTable) :
              card.coverageTable[q].cdtRange = lookup(code).cdtRange}}

VerifyActions ==
  {i \in 1..Len(generated.actions) :
     generated.actions[i].title = "Verify coverage for today's codes"}

NoRowFor(code, card) == lookup(code) # NoEntry /\ RowPcts(code, card) = {}

(***************************************************************************)
(* C21, as stated: a call with scheduled codes and a benefit card that has *)
(* no coverage row for a code's category returns the RECOMMENDED verify-   *)
(* coverage action that a call with no benefit card returns.               *)
(***************************************************************************)
C21_UnknownAlike ==
  generated.calls > 0 =>
    LET codes == ApptCodes(generated.ctx.todayAppt)
    IN /\ codes # <<>>
       /\ \/ generated.card = NoCard
          \/ \E n \in 1..Len(codes) : NoRowFor(codes[n], generated.card)
       => \E i \in VerifyActions :
            /\ generated.actions[i].priority = PRIORITY["RECOMMENDED"]
            /\ generated.actions[i].arg = codes

(***************************************************************************)
(* C21. The RECOMMENDED verify-coverage action is returned when there are  *)
(* scheduled codes and no benefit card, once, listing the codes. With a    *)
(* benefit card it is never returned: a code whose category has no row in  *)
(* the card's coverage table gets no action from a percentage, and no      *)
(* coverage action at all unless the non-covered list contains the code.   *)
(***************************************************************************)
C21_UnknownOnlyWithoutCard ==
  generated.calls > 0 =>
    LET codes == ApptCodes(generated.ctx.todayAppt)
        a == generated.actions
    IN IF generated.card = NoCard
       THEN /\ Cardinality(VerifyActions) = IF codes # <<>> THEN 1 ELSE 0
            /\ \A i \in VerifyActions :
                 a[i].priority = PRIORITY["RECOMMENDED"] /\ a[i].arg = codes
       ELSE /\ VerifyActions = {}
            /\ \A n \in 1..Len(codes) :
                 NoRowFor(codes[n], generated.card) =>
                   /\ \A i \in CoverageActions(codes[n]) : a[i].title = "may be excluded"
                   /\ ~ListedNonCovered(codes[n], generated.card) =>
                        CoverageActions(codes[n]) = {}

\* D1206 is scheduled under a card with no Preventive row and an empty
\* non-covered list: the call has returned no coverage action for it.
C21_Witness ==
  /\ generated.calls > 0
  /\ generated.card # NoCard
  /\ ApptCodes(generated.ctx.todayAppt) = <<"D1206">>
  /\ NoRowFor("D1206", generated.card)
  /\ generated.card.nonCovered = <<>>
  /\ CoverageActions("D1206") = {}
  /\ VerifyActions = {}

(***************************************************************************)
(* C22. The list generate returns is de-duplicated: no two of its actions  *)
(* have the same title and detail (in the model, the same rule title and   *)
(* the same values put into title and detail).                             *)
(***************************************************************************)
C22_NoDuplicates ==
  \A i, j \in 1..Len(generated.actions) :
    i # j => \/ generated.actions[i].title # generated.actions[j].title
             \/ generated.actions[i].arg # generated.actions[j].arg

(***************************************************************************)
(* The re-verification actions of a list, and the age in days, at a time,  *)
(* of the insurance.lastVerified of the profile generate was called on.    *)
(***************************************************************************)
Reverify(actions) ==
  {i \in 1..Len(actions) : actions[i].title = "Insurance not verified recently"}

VerifiedParses ==
  /\ Truthy(Get(generated.ctx.insurance, "lastVerified"))
  /\ _parseLooseDate(generated.ctx.insurance["lastVerified"].p) # NoDate

DaysSince(time) == time - _parseLooseDate(generated.ctx.insurance["lastVerified"].p)

(***************************************************************************)
(* C23, as stated: whenever insurance.lastVerified parses to a date more   *)
(* than 30 days before the time of the call, the list has an ACTION        *)
(* re-verification action, whatever the other rules see; when it is 30     *)
(* days old or less, the list has none.                                    *)
(***************************************************************************)
C23_RecencyAlways ==
  generated.calls > 0 /\ VerifiedParses =>
    IF DaysSince(generated.at) > STALE_DAYS
    THEN \E i \in Reverify(generated.actions) :
           generated.actions[i].priority = PRIORITY["ACTION"]
    ELSE Reverify(generated.actions) = {}

(***************************************************************************)
(* C23. The recency rule runs under the insurance rule: the list has one   *)
(* re-verification action, of ACTION priority and stating the age in days, *)
(* exactly when the insurance tab has been scanned, a carrier is on file   *)
(* and insurance.lastVerified parses to a date more than 30 days before    *)
(* the time of the call; in every other case, a lastVerified of 30 days or *)
(* less among them, it has none. The other sections of the profile and the *)
(* benefit card do not matter.                                             *)
(***************************************************************************)
C23_RecencyWhenOnFile ==
  LET due(time) == /\ "insurance" \in TabSet(generated.ctx)
                   /\ Truthy(Get(generated.ctx.insurance, "carrier"))
                   /\ VerifiedParses
                   /\ DaysSince(time) > STALE_DAYS
      holds(actions, time) ==
        /\ Cardinality(Reverify(actions)) = IF due(time) THEN 1 ELSE 0
        /\ \A i \in Reverify(actions) :
             /\ actions[i].priority = PRIORITY["ACTION"]
             /\ actions[i].arg = <<DaysSince(time)>>
  IN /\ generated.calls > 0 => holds(generated.actions, generated.at)
     /\ generated.calls > 1 => holds(generated.again, generated.againAt)

\* A profile verified on Dec 2, with a carrier, the insurance tab scanned and
\* other sections to act on: the call on the 30th day has returned no
\* re-verification action, the call a day later has returned one.
C23_Witness ==
  /\ generated.calls = 2
  /\ VerifiedParses
  /\ DaysSince(generated.at) = STALE_DAYS
  /\ DaysSince(generated.againAt) = STALE_DAYS + 1
  /\ Reverify(generated.actions) = {}
  /\ Cardinality(Reverify(generated.again)) = 1
  /\ Len(generated.again) > 3


\* The sections a merge touched: those whose stored value it changed and those
\* it recorded in tabsScanned.
Touched(before, after) ==
  {x \in SectionNames \cup {"todayAppt"} :
     \/ x \in DOMAIN after /\ after[x] # before[x]
     \/ x \in TabSet(after) \ TabSet(before)}

\* Whether _regexFallback can touch a section on some page text: SECTIONS has
\* markers for it, or a parser writes it.
RegexCovers(x) ==
  \E text \in MergeTexts : x \in Touched(NoCtx, RegexInto(NoCtx, text, now))

(***************************************************************************)
(* C30. The regex fallback covers the section set of the extraction path:  *)
(* every section a merge of an extraction result populates or records in   *)
(* tabsScanned is one that _regexFallback can detect and populate too.     *)
(***************************************************************************)
C30_FallbackCoversAll ==
  lastMerge.via \in {"llm", "cache"} =>
    \A x \in Touched(lastMerge.before, lastMerge.after) : RegexCovers(x)


(***************************************************************************)
(* The hash model: _hashText on page texts written out as tokens. A token  *)
(* is a word (v = 0 the word "time", v = -1 the word "date"; cs = 1 in     *)
(* capitals), a 12-hour clock time "h:mm AM" (cs = 0 "am", 1 "AM", 2 "Am"),*)
(* a 24-hour clock time "hh:mm", a date "m/d/yyyy" or a date written with  *)
(* the month's name ("Feb 19, 2026", as Plan Last Updated shows it). lead  *)
(* is the whitespace before the first token, gap the run between tokens.   *)
(***************************************************************************)
Token(k, v, cs) == [k |-> k, v |-> v, cs |-> cs]

\* .replace(/\d{1,2}:\d{2}\s*(?:AM|PM|am|pm)/g, "TIME")
ReplaceTime(t) == IF t.k = "time12" /\ t.cs \in {0, 1} THEN Token("word", 0, 1) ELSE t

\* .replace(/\d{1,2}\/\d{1,2}\/\d{2,4}/g, "DATE")
ReplaceDate(t) == IF t.k = "slashDate" THEN Token("word", -1, 1) ELSE t

\* .toLowerCase()
LowerToken(t) == [t EXCEPT !.cs = 0]

\* The normalized string of _hashText: times and dates replaced, whitespace
\* runs collapsed to one space (.replace(/\s+/g, " ")), trimmed, lower-cased.
Normalized(toks, lead, gap) ==
  [toks |-> [i \in 1..Len(toks) |-> LowerToken(ReplaceDate(ReplaceTime(toks[i])))],
   lead |-> 0, gap |-> IF gap >= 1 THEN 1 ELSE 0]

\* SHA-256 of the normalized string (distinct strings, distinct digests).
HashOfTokens(toks, lead, gap) == Normalized(toks, lead, gap)

HashWords == {Token("word", v, cs) : v \in {-1, 0, 1, 2}, cs \in {0, 1}}

HashClocks ==
  {Token("time12", v, cs) : v \in {1, 2}, cs \in {0, 1, 2}}
    \cup {Token("time24", v, 0) : v \in {1, 2}}

HashDates == {Token(k, v, 0) : k \in {"slashDate", "longDate"}, v \in {1, 2}}

\* The token lists hashed: a word, then any token.
HashTokenLists ==
  {<<Token("word", 1, cs), t>> : cs \in {0, 1}, t \in HashWords \cup HashClocks \cup HashDates}

\* The pairs hashed in one behaviour.
MaxHashes == 1

InitHash == now = 1 /\ store = <<>> /\ cardCache = <<>> /\ InitQuiet

\* _hashText(a) and _hashText(b) for two page texts.
HashPair ==
  \E a \in HashTokenLists, b \in HashTokenLists, la \in {0, 1}, gb \in {1, 2} :
    /\ obs.hashed.n < MaxHashes
    /\ obs' = [obs EXCEPT !.hashed = [n |-> @.n + 1, a |-> a, b |-> b,
                                      lead |-> <<la, 0>>, gap |-> <<1, gb>>]]
    /\ UNCHANGED <<OtherVars, generated, now, cache, inserted, store, cardCache, isScanning,
                   pendingScanText, lastPatientName, currentPatientCtx, currentCard,
                   currentPageType, requests, scans, lastCall, lastSave, lastMerge>>

NextHash == HashPair

SpecHash == InitHash /\ [][NextHash]_vars

\* Two tokens are the same but for what the claim lets vary: both clock times,
\* both calendar dates, or the same word in any letter case.
AlikeTokens(s, t) ==
  \/ s \in HashClocks /\ t \in HashClocks
  \/ s \in HashDates /\ t \in HashDates
  \/ s.k = "word" /\ t.k = "word" /\ s.v = t.v

DifferOnlyVolatile(a, b) ==
  Len(a) = Len(b) /\ \A i \in 1..Len(a) : AlikeTokens(a[i], b[i])

\* The digests of the two texts of the last HashPair.
DigestA == HashOfTokens(obs.hashed.a, obs.hashed.lead[1], obs.hashed.gap[1])
DigestB == HashOfTokens(obs.hashed.b, obs.hashed.lead[2], obs.hashed.gap[2])

(***************************************************************************)
(* C31. Hash stability: two texts have the same digest exactly when they   *)
(* differ only in clock-time tokens, calendar-date tokens, letter case or  *)
(* whitespace runs.                                                        *)
(***************************************************************************)
C31_HashStable ==
  obs.hashed.n > 0 =>
    (DifferOnlyVolatile(obs.hashed.a, obs.hashed.b) <=> DigestA = DigestB)


(***************************************************************************)
(* The benefit extraction: captureAndExtract of the side panel, one action *)
(* per await. A call is made by a capture button or by the timer that      *)
(* handleEligibilityPage sets; obs.captured counts the calls.              *)
(***************************************************************************)
\* The calls of captureAndExtract in one behaviour.
MaxCaptures == 3

\* The cards the extraction service returns.
ExtractedCards == {StoredCard, Card(1, Name(2, 0), 1)}

Capture(id, pc, card) == [id |-> id, pc |-> pc, card |-> card]

\* The calls that are past isExtracting = true and before the finally block.
Extracting == {c \in captures : c.pc \in {"extract", "cache"}}

InitCapture == now = 1 /\ store = <<>> /\ cardCache = <<>> /\ InitQuiet

CaptureRest == <<injectedTabs, injections, tabScripts, ContentVars, now, cache, inserted, store, isScanning, pendingScanText, lastPatientName,
                 currentPatientCtx, currentPageType, requests, scans, lastCall, lastSave,
                 lastMerge, generated>>

\* captureAndExtract(mode, providedText) up to its first await: the guard,
\* then chrome.tabs.sendMessage for a button, getConfig for the timer's text.
\* The timer's callback calls it only if (!currentCard && !isExtracting).
CaptureCalled ==
  \E from \in {"button", "timer"} :
    /\ obs.captured < MaxCaptures
    /\ from = "timer" => currentCard = NoCard /\ ~isExtracting
    /\ obs' = [obs EXCEPT !.captured = @ + 1]
    /\ captures' = IF isExtracting THEN captures
                   ELSE captures \cup {Capture(obs.captured + 1,
                                               IF from = "timer" THEN "config" ELSE "page",
                                               NoCard)}
    /\ UNCHANGED <<isExtracting, currentCard, cardCache, CaptureRest>>

\* The content script answers PP_GET_PAGE_DATA or PP_GET_SELECTION; without
\* an answer, or with less than 50 characters, the call ends with a toast.
PageTextArrives ==
  \E c \in captures, enough \in BOOLEAN :
    /\ c.pc = "page"
    /\ captures' = IF enough THEN (captures \ {c}) \cup {[c EXCEPT !.pc = "config"]}
                   ELSE captures \ {c}
    /\ UNCHANGED <<isExtracting, currentCard, cardCache, obs, CaptureRest>>

\* getConfig returns: without a key the call ends, with one it sets
\* isExtracting = true and awaits PP.llmExtractor.extract(rawText).
ConfigArrives ==
  \E c \in captures, hasKey \in BOOLEAN :
    /\ c.pc = "config"
    /\ captures' = IF hasKey THEN (captures \ {c}) \cup {[c EXCEPT !.pc = "extract"]}
                   ELSE captures \ {c}
    /\ isExtracting' = IF hasKey THEN TRUE ELSE isExtracting
    /\ UNCHANGED <<currentCard, cardCache, obs, CaptureRest>>

\* extract returns: currentCard = result.card, then setLastBenefitCard.
ExtractReturns ==
  \E c \in captures, card \in ExtractedCards :
    /\ c.pc = "extract"
    /\ currentCard' = card
    /\ captures' = (captures \ {c}) \cup {[c EXCEPT !.pc = "cache", !.card = card]}
    /\ UNCHANGED <<isExtracting, cardCache, obs, CaptureRest>>

\* await PP.storage.cacheCard(currentCard), the rendering, and the finally block.
CaptureCached ==
  \E c \in captures :
    /\ c.pc = "cache"
    /\ cardCache' = cacheCard(cardCache, currentCard, now)
    /\ isExtracting' = FALSE
    /\ captures' = captures \ {c}
    /\ UNCHANGED <<currentCard, obs, CaptureRest>>

\* extract throws: renderError, and the finally block.
ExtractThrows ==
  \E c \in captures :
    /\ c.pc = "extract"
    /\ isExtracting' = FALSE
    /\ captures' = captures \ {c}
    /\ UNCHANGED <<currentCard, cardCache, obs, CaptureRest>>

NextCapture ==
  \/ CaptureCalled
  \/ PageTextArrives
  \/ ConfigArrives
  \/ ExtractReturns
  \/ CaptureCached
  \/ ExtractThrows

SpecCapture == InitCapture /\ [][NextCapture]_vars

(***************************************************************************)
(* C33. isExtracting is a mutex: at most one captureAndExtract call is     *)
(* past its guard and running the extraction at any time, and the flag is  *)
(* set whenever one is.                                                    *)
(***************************************************************************)
C33_ExtractingMutex ==
  /\ Cardinality(Extracting) <= 1
  /\ Extracting # {} => isExtracting


(***************************************************************************)
(* The on-demand injection of the background script: ensureInjected, one   *)
(* action per await, and the tab listeners. The handlers of                *)
(* PP_TRIGGER_EXTRACT, PP_TOGGLE_PANEL and PP_INJECT_AND_SHOW each call    *)
(* ensureInjected for the active tab; obs.ensured counts the calls.        *)
(***************************************************************************)
\* The calls of ensureInjected and the page loads in one behaviour.
MaxEnsures == 3
MaxReloads == 1

Injection(id, tab, pc) == [id |-> id, tab |-> tab, pc |-> pc]

InitInject == now = 1 /\ store = <<>> /\ cardCache = <<>> /\ InitQuiet

InjectRest == <<isExtracting, captures, ContentVars, now, cache, inserted, store, cardCache, isScanning,
                pendingScanText, lastPatientName, currentPatientCtx, currentCard,
                currentPageType, requests, scans, lastCall, lastSave, lastMerge, generated>>

\* ensureInjected(tabId) up to its first await: injectedTabs.has(tabId), then
\* chrome.tabs.sendMessage(tabId, { type: "PP_PING" }).
EnsureCalled ==
  \E tab \in Tabs, type \in {"PP_TRIGGER_EXTRACT", "PP_TOGGLE_PANEL", "PP_INJECT_AND_SHOW"} :
    /\ obs.ensured < MaxEnsures
    /\ obs' = [obs EXCEPT !.ensured = @ + 1]
    /\ injections' = IF tab \in injectedTabs THEN injections
                     ELSE injections \cup {Injection(obs.ensured + 1, tab, "ping")}
    /\ UNCHANGED <<injectedTabs, tabScripts, InjectRest>>

\* The ping is answered by a content script of the tab (injectedTabs.add,
\* return false) or rejects, and insertCSS is called.
PingDone ==
  \E i \in injections :
    /\ i.pc = "ping"
    /\ IF tabScripts[i.tab] > 0
       THEN /\ injectedTabs' = injectedTabs \cup {i.tab}
            /\ injections' = injections \ {i}
       ELSE /\ injectedTabs' = injectedTabs
            /\ injections' = (injections \ {i}) \cup {[i EXCEPT !.pc = "css"]}
    /\ UNCHANGED <<tabScripts, obs, InjectRest>>

\* insertCSS returns and executeScript is called, or it rejects (as it does
\* for a closed tab) and ensureInjected returns false.
CssDone ==
  \E i \in injections, ok \in BOOLEAN :
    /\ i.pc = "css"
    /\ tabScripts[i.tab] < 0 => ~ok
    /\ injections' = IF ok THEN (injections \ {i}) \cup {[i EXCEPT !.pc = "script"]}
                     ELSE injections \ {i}
    /\ UNCHANGED <<injectedTabs, tabScripts, obs, InjectRest>>

\* executeScript has run the content scripts in the tab (injectedTabs.add,
\* return true), or it rejects and ensureInjected returns false.
ScriptsDone ==
  \E i \in injections, ok \in BOOLEAN :
    /\ i.pc = "script"
    /\ tabScripts[i.tab] < 0 => ~ok
    /\ injections' = injections \ {i}
    /\ injectedTabs' = IF ok THEN injectedTabs \cup {i.tab} ELSE injectedTabs
    /\ tabScripts' = IF ok THEN [tabScripts EXCEPT ![i.tab] = @ + 1] ELSE tabScripts
    /\ UNCHANGED <<obs, InjectRest>>

\* chrome.tabs.onUpdated with status "loading": the tab loads a page, whose
\* scripts are those of the manifest, if it matches.
TabUpdated ==
  \E tab \in Tabs, matches \in BOOLEAN :
    /\ obs.reloads < MaxReloads
    /\ tabScripts[tab] >= 0
    /\ obs' = [obs EXCEPT !.reloads = @ + 1]
    /\ injectedTabs' = injectedTabs \ {tab}
    /\ tabScripts' = [tabScripts EXCEPT ![tab] = IF matches THEN 1 ELSE 0]
    /\ UNCHANGED <<injections, InjectRest>>

\* chrome.tabs.onRemoved: the tab is closed.
TabRemoved ==
  \E tab \in Tabs :
    /\ obs.reloads < MaxReloads
    /\ tabScripts[tab] >= 0
    /\ obs' = [obs EXCEPT !.reloads = @ + 1]
    /\ injectedTabs' = injectedTabs \ {tab}
    /\ tabScripts' = [tabScripts EXCEPT ![tab] = -1]
    /\ UNCHANGED <<injections, InjectRest>>

NextInject ==
  \/ EnsureCalled
  \/ PingDone
  \/ CssDone
  \/ ScriptsDone
  \/ TabUpdated
  \/ TabRemoved

SpecInject == InitInject /\ [][NextInject]_vars

(***************************************************************************)
(* C34. No double injection: a page load never gets the content scripts    *)
(* more than once, and executeScript never runs them in a tab that is in   *)
(* injectedTabs or whose content script answers the ping.                  *)
(***************************************************************************)
C34_NoDoubleInjection ==
  /\ [](\A tab \in Tabs : tabScripts[tab] <= 1)
  /\ [][\A i \in injections \ injections' :
          i.pc = "script" /\ tabScripts'[i.tab] > tabScripts[i.tab] =>
            i.tab \notin injectedTabs /\ tabScripts[i.tab] = 0]_vars


(***************************************************************************)
(* The content script: the data relay (guardContext, teardownEverything,   *)
(* sendPageUpdate, scheduleUpdate and the callbacks init sets up) and the  *)
(* orchestrator's MutationObserver with schedulePatientRescan. A mutation  *)
(* record is a pair of the observer it is queued for and of where the      *)
(* mutation was: "panel" inside #pp-panel, "page" elsewhere. obs.sent      *)
(* counts the PP_PAGE_UPDATE messages, obs.mutated the page's mutations,   *)
(* obs.rescans the scans the rescan timer started.                         *)
(***************************************************************************)
MaxSent == 2
MaxMutations == 2
MaxRescans == 2

Content ==
  [contextValid |-> contextValid, extensionDead |-> extensionDead,
   updateTimer |-> updateTimer, urlPollInterval |-> urlPollInterval,
   domObserverRef |-> domObserverRef, cleanupDetector |-> cleanupDetector,
   contentPageType |-> contentPageType, sent |-> obs.sent]

SetContent(c) ==
  /\ contextValid' = c.contextValid
  /\ extensionDead' = c.extensionDead
  /\ updateTimer' = c.updateTimer
  /\ urlPollInterval' = c.urlPollInterval
  /\ domObserverRef' = c.domObserverRef
  /\ cleanupDetector' = c.cleanupDetector
  /\ contentPageType' = c.contentPageType

\* A teardown that leaves the pending timer.
TeardownKeepsTimer(c) ==
  IF c.extensionDead THEN c
  ELSE [c EXCEPT !.extensionDead = TRUE, !.urlPollInterval = FALSE,
                 !.domObserverRef = FALSE, !.cleanupDetector = FALSE]

\* teardownEverything()
teardownEverything(c) ==
  IF c.extensionDead THEN c
  ELSE [c EXCEPT !.extensionDead = TRUE, !.updateTimer = FALSE, !.urlPollInterval = FALSE,
                 !.domObserverRef = FALSE, !.cleanupDetector = FALSE]

\* guardContext(): its result, and the state it leaves.
guardContext(c) ==
  IF c.extensionDead THEN [ok |-> FALSE, c |-> c]
  ELSE IF ~c.contextValid THEN [ok |-> FALSE, c |-> teardownEverything(c)]
  ELSE [ok |-> TRUE, c |-> c]

\* sendPageUpdate(): throws says whether chrome.runtime.sendMessage throws
\* "Extension context invalidated".
sendPageUpdate(c, throws) ==
  LET g == guardContext(c)
  IN IF ~g.ok THEN g.c
     ELSE IF throws THEN teardownEverything(g.c)
     ELSE [g.c EXCEPT !.sent = @ + 1]

\* scheduleUpdate()
scheduleUpdate(c) ==
  LET g == guardContext(c)
  IN IF ~g.ok THEN g.c ELSE [g.c EXCEPT !.updateTimer = TRUE]

InitContentModel == now = 1 /\ store = <<>> /\ cardCache = <<>> /\ InitQuiet

ContentRest == <<isExtracting, captures, injectedTabs, injections, tabScripts, now, cache,
                 inserted, store, cardCache, isScanning, pendingScanText, lastPatientName,
                 currentPatientCtx, currentCard, currentPageType, requests, scans, lastCall,
                 lastSave, lastMerge, generated>>

\* The extension is reloaded or updated: the context of the content script
\* is invalidated.
ContextInvalidated ==
  /\ contextValid
  /\ contextValid' = FALSE
  /\ UNCHANGED <<extensionDead, updateTimer, urlPollInterval, domObserverRef, cleanupDetector,
                 contentPageType, actionScanTimer, mutations, obs, ContentRest>>

\* The page changes its DOM outside the panel: a record for each observer
\* that observes document.body.
PageMutates ==
  /\ obs.mutated < MaxMutations
  /\ mutations' = mutations \cup {<<"orchestrator", "page">>}
                    \cup (IF domObserverRef THEN {<<"relay", "page">>} ELSE {})
  /\ obs' = [obs EXCEPT !.mutated = @ + 1]
  /\ UNCHANGED <<contextValid, extensionDead, updateTimer, urlPollInterval, domObserverRef,
                 cleanupDetector, contentPageType, actionScanTimer, ContentRest>>

\* The relay's MutationObserver callback: scheduleUpdate if a mutation is
\* outside #pp-panel. disconnect() drops the records not yet delivered.
RelayObserved ==
  \E m \in mutations :
    /\ m[1] = "relay"
    /\ domObserverRef
    /\ LET g == guardContext(Content)
           c == IF g.ok /\ m[2] = "page" THEN scheduleUpdate(g.c) ELSE g.c
       IN /\ SetContent(c)
          /\ mutations' = IF c.domObserverRef THEN mutations \ {m}
                          ELSE {r \in mutations : r[1] # "relay"}
    /\ UNCHANGED <<actionScanTimer, obs, ContentRest>>

\* The URL poll: scheduleUpdate if the URL changed.
UrlPolled ==
  \E changed \in BOOLEAN :
    /\ urlPollInterval
    /\ LET g == guardContext(Content)
           c == IF g.ok /\ changed THEN scheduleUpdate(g.c) ELSE g.c
       IN /\ SetContent(c)
          /\ mutations' = IF c.domObserverRef THEN mutations
                          ELSE {r \in mutations : r[1] # "relay"}
    /\ UNCHANGED <<actionScanTimer, obs, ContentRest>>

\* The page-detector's watch callback: the page type, then sendPageUpdate.
DetectorCalled ==
  \E pageType \in PageTypes, throws \in BOOLEAN :
    /\ cleanupDetector
    /\ obs.sent < MaxSent
    /\ LET g == guardContext(Content)
           c == IF g.ok THEN sendPageUpdate([g.c EXCEPT !.contentPageType = pageType], throws)
                ELSE g.c
       IN /\ SetContent(c)
          /\ obs' = [obs EXCEPT !.sent = c.sent]
          /\ mutations' = IF c.domObserverRef THEN mutations
                          ELSE {r \in mutations : r[1] # "relay"}
    /\ UNCHANGED <<actionScanTimer, ContentRest>>

\* The debounce timer fires: sendPageUpdate.
UpdateTimerFired ==
  \E throws \in BOOLEAN :
    /\ updateTimer
    /\ obs.sent < MaxSent
    /\ LET c == sendPageUpdate([Content EXCEPT !.updateTimer = FALSE], throws)
       IN /\ SetContent(c)
          /\ obs' = [obs EXCEPT !.sent = c.sent]
          /\ mutations' = IF c.domObserverRef THEN mutations
                          ELSE {r \in mutations : r[1] # "relay"}
    /\ UNCHANGED <<actionScanTimer, ContentRest>>

\* The orchestrator's MutationObserver callback: schedulePatientRescan on a
\* patient view, whatever the mutation.
OrchestratorObserved ==
  \E m \in mutations :
    /\ m[1] = "orchestrator"
    /\ mutations' = mutations \ {m}
    /\ actionScanTimer' = IF contentPageType = PATIENT_VIEW
                          THEN [armed |-> TRUE, by |-> m[2]] ELSE actionScanTimer
    /\ UNCHANGED <<contextValid, extensionDead, updateTimer, urlPollInterval, domObserverRef,
                   cleanupDetector, contentPageType, obs, ContentRest>>

\* The rescan timer fires: on a patient view scanPatientAndShowActions runs,
\* and with a result updatePanel("actions") writes panelEl.innerHTML.
RescanTimerFired ==
  \E rendered \in BOOLEAN :
    /\ actionScanTimer.armed
    /\ obs.rescans < MaxRescans
    /\ actionScanTimer' = NoTimer
    /\ IF contentPageType = PATIENT_VIEW
       THEN /\ obs' = [obs EXCEPT !.rescans = @ + 1]
            /\ mutations' = IF rendered
                            THEN mutations \cup {<<"orchestrator", "panel">>}
                                   \cup (IF domObserverRef THEN {<<"relay", "panel">>} ELSE {})
                            ELSE mutations
       ELSE UNCHANGED <<obs, mutations>>
    /\ UNCHANGED <<contextValid, extensionDead, updateTimer, urlPollInterval, domObserverRef,
                   cleanupDetector, contentPageType, ContentRest>>

NextContent ==
  \/ ContextInvalidated
  \/ PageMutates
  \/ RelayObserved
  \/ UrlPolled
  \/ DetectorCalled
  \/ UpdateTimerFired
  \/ OrchestratorObserved
  \/ RescanTimerFired

SpecContent == InitContentModel /\ [][NextContent]_vars

(***************************************************************************)
(* C35. Graceful death: once extensionDead is true it stays true, no       *)
(* PP_PAGE_UPDATE is sent any more, and no update timer is pending or set, *)
(* whatever mutations, URL polls and detector callbacks follow.            *)
(***************************************************************************)
C35_GracefulDeath ==
  /\ [](extensionDead =>
          ~updateTimer /\ ~urlPollInterval /\ ~domObserverRef /\ ~cleanupDetector)
  /\ [][extensionDead =>
          extensionDead' /\ obs'.sent = obs.sent /\ ~updateTimer']_vars

\* The context was invalidated while the debounce timer was pending; the
\* script has noticed, and mutations of the page have happened since.
C35_Witness ==
  /\ extensionDead
  /\ ~contextValid
  /\ obs.sent > 0
  /\ obs.mutated = MaxMutations
  /\ \E m \in mutations : m[2] = "page"

(***************************************************************************)
(* C36. Self-originated changes are ignored: a mutation inside #pp-panel   *)
(* never sets the update timer or the rescan timer, so that rendering the  *)
(* action list never starts another scan.                                  *)
(***************************************************************************)
C36_OwnChangesIgnored ==
  /\ [](actionScanTimer.armed => actionScanTimer.by = "page")
  /\ [][\A m \in mutations \ mutations' :
          m[2] = "panel" => /\ updateTimer' = updateTimer
                            /\ actionScanTimer' = actionScanTimer]_vars


(***************************************************************************)
(* C38. A profile survives its own save: after a scanAndMerge that saved a *)
(* profile, load of that patient returns the profile just merged, also     *)
(* when the store held 100 profiles before; the eviction of a save never   *)
(* removes the entry that save wrote.                                      *)
(***************************************************************************)
C38_SurvivesOwnSave ==
  lastMerge.seq > 0 =>
    /\ HasKey(store, lastMerge.key)
    /\ Lookup(store, lastMerge.key).ctx = lastMerge.after
    /\ \A e \in lastSave.evicted : e.key # lastSave.key

\* A new patient has been saved into a full store whose profiles all carry the
\* time of this save; one of them was evicted and the new profile is stored.
C38_Witness ==
  /\ lastMerge.seq > 0
  /\ lastSave.fresh
  /\ lastSave.count = MAX_PROFILES
  /\ lastSave.evicted # {}
  /\ \A e \in lastSave.evicted : ProfileStamp(e) = lastMerge.after.lastUpdated
  /\ HasKey(store, lastMerge.key)
  /\ Lookup(store, lastMerge.key).ctx = lastMerge.after


(***************************************************************************)
(* The scan model with failures, where a scan that can take a step         *)
(* eventually takes one: every await of scanPatientAndShowActions settles, *)
(* the extraction call by an answer or by an error.                        *)
(***************************************************************************)
ScanStep ==
  \/ CardLookupDone
  \/ HashDone
  \/ ConfigDone
  \/ LLMAnswers
  \/ LLMFails
  \/ LoadDone
  \/ SaveLoaded
  \/ SetDone
  \/ SetFails
  \/ Card2Done

\* The page shows one of two patients, or a text under MIN_TEXT_LENGTH.
LiveTexts ==
  {Text(Name(1, 0), "lines", 1, 1, 120),
   Text(Name(2, 0), "lines", 1, 1, 120),
   Text(Name(1, 0), "lines", 1, 1, 70)}

\* chrome.runtime.onMessage: PP_PAGE_UPDATE from the content script.
PageArrives ==
  \E pageType \in PageTypes, pageText \in LiveTexts :
    /\ handlePageUpdate(pageType, pageText)
    /\ UNCHANGED <<OtherVars, generated, now, store, cardCache, requests, lastSave, lastMerge>>

NextLive == PageArrives \/ ScanStep

SpecLive == Init /\ [][NextLive]_vars /\ WF_vars(ScanStep)

Ends(s) == \A t \in scans' : t.seq # s.seq

\* The follow-up scan on a text has started; or it has run to its end at once,
\* scanAndMerge returning without an await.
FollowedUp(pageText) ==
  \/ obs.follow.n = 1 /\ obs.follow.text = pageText
  \/ obs.follow.n = 0 /\ scans = {} /\ lastCall.norm = Normalize(pageText)

(***************************************************************************)
(* C39 as stated. Every page update queued during a scan is eventually     *)
(* scanned: each text put into the pending slot becomes the text of the    *)
(* follow-up scan.                                                         *)
(***************************************************************************)
C39_EveryQueuedScanned ==
  \A pageText \in LiveTexts :
    (pendingScanText = pageText) ~> FollowedUp(pageText)

(***************************************************************************)
(* C39. The scan guard is always released: isScanning is held only while a *)
(* scan is in flight, and a scan that ends, with a result, with null or by *)
(* an error, releases it, starting the follow-up scan on the text in the   *)
(* pending slot if there is one; the slot is emptied by nothing else. A   *)
(* patient-view update of at least 50 characters arriving with no scan in  *)
(* flight is scanned at once. With every await settling, a held guard is   *)
(* eventually released, so every scan ends and the text in the pending     *)
(* slot when it ends is scanned.                                           *)
(***************************************************************************)
C39_GuardReleased ==
  /\ []((isScanning <=> scans # {}) /\ (pendingScanText # NoText => isScanning))
  /\ [][\A s \in scans : Ends(s) =>
          /\ pendingScanText = NoText => ~isScanning' /\ scans' = {}
          /\ pendingScanText # NoText =>
               /\ pendingScanText' = NoText
               /\ \/ obs'.follow.n = 1 /\ obs'.follow.text = pendingScanText
                  \/ /\ obs'.follow.n = 0 /\ scans' = {}
                     /\ lastCall'.norm = Normalize(pendingScanText)]_vars
  /\ [][pendingScanText # NoText /\ pendingScanText' = NoText =>
          \E s \in scans : Ends(s)]_vars
  /\ [][\A pageText \in LiveTexts :
          /\ ~isScanning
          /\ pageText.len >= MIN_SCAN_LENGTH
          /\ handlePageUpdate(PATIENT_VIEW, pageText)
          => \/ \E s \in scans' : s.seq = obs'.count
             \/ lastCall'.norm = Normalize(pageText) /\ scans' = {}]_vars
  /\ isScanning ~> ~isScanning

\* The storage write of a scan failed while a text was queued; the guard was
\* released and the follow-up scan on that text is in flight.
C39_Witness ==
  /\ obs.failed.rejected
  /\ obs.follow.n = 1
  /\ \E s \in scans : s.queued /\ s.text = obs.follow.text
====
